---- MODULE Spec2Model ----
(***************************************************************************)
(* A model of the proxy node pool of gemini-business2api                   *)
(* (src/core/proxy_pool.py): the node scoring model, the penalty ledger    *)
(* with its idle reset, and the selection loop of ensure_proxy_reachable   *)
(* and on_failure, run by concurrent callers that share one ProxyPool.     *)
(*                                                                         *)
(* Representation.                                                         *)
(*  - A string of the program is the sequence of its code points, so that  *)
(*    substring tests, split, strip, lower and the lexicographic order of  *)
(*    Python's str are computed and not assumed.  The states hold short    *)
(*    node ids; NameText maps an id to the node's name.                    *)
(*  - A float is a fixed-point integer.  The logit z and the weights are   *)
(*    in thousandths, a score and a penalty in hundredths of a point       *)
(*    (SCORE_THRESHOLD 10.0 is 1000), exp is evaluated at scale FX.        *)
(*  - Time is the value of time.monotonic() in seconds.                    *)
(***************************************************************************)
EXTENDS Integers, Sequences, FiniteSets, TLC

None == "None"

\* ------------------------------------------------------------------------
\* Bounds of the model
\* ------------------------------------------------------------------------

\* time.monotonic() advances in steps of half the idle threshold, that many times
MaxTicks == 2

\* on_failure is called at most that many times in a behaviour
MaxFailures == 1

\* the merged list of fetch_provider has at most that many entries
MaxMerged == 3

\* start_mihomo spawns an engine process at most that many times
MaxSpawns == 2

\* a node name given to _parse_name has at most that many parts between delimiters
MaxParts == 4

\* ------------------------------------------------------------------------
\* Program constants (src/core/proxy_pool.py:46-89)
\* ------------------------------------------------------------------------

\* SCORE_THRESHOLD = 10.0, in hundredths of a point
SCORE_THRESHOLD == 1000

\* REFRESH_IDLE_SECONDS = 21600
REFRESH_IDLE_SECONDS == 21600

\* PROVIDER_REFRESH_MIN_SECONDS = 21600
PROVIDER_REFRESH_MIN_SECONDS == 21600

\* PENALTY_* in hundredths of a point
PENALTY_PREFLIGHT == 10000

PENALTY_RISK == 6000

PENALTY_PROXY == 3000

PENALTY_MAIL == 500

\* BASE_BIAS = -1.711 and the weight tables, in thousandths
BASE_BIAS == -1711

KIND_W ==
  [speednode |-> 1874, tagged |-> 1102, other |-> -2281, garbage |-> -2406]

\* keys: "商宽", "原生/疑似家宽", "家宽", "机房"
LINE_W ==
  (<<21830, 23485>> :> 1889)
  @@ (<<21407, 29983, 47, 30097, 20284, 23478, 23485>> :> 452)
  @@ (<<23478, 23485>> :> 295)
  @@ (<<26426, 25151>> :> -1534)

\* keys: "高风险", "低风险", "非常安全"
RISK_W ==
  (<<39640, 39118, 38505>> :> -1281)
  @@ (<<20302, 39118, 38505>> :> 831)
  @@ (<<38750, 24120, 23433, 20840>> :> 1552)

\* the two URLs of PREFLIGHT_URLS, by position
PREFLIGHT_URLS == <<"gstatic_generate_204", "auth_business_gemini_login">>

\* the sentinel members of a group that _get_group filters out
Sentinels == {"DIRECT", "REJECT"}

\* ------------------------------------------------------------------------
\* Strings as sequences of code points
\* ------------------------------------------------------------------------

\* "防范境外势力渗透"
GARBAGE_MARK == <<38450, 33539, 22659, 22806, 21183, 21147, 28183, 36879>>

\* "speednode"
SPEEDNODE_MARK == <<115, 112, 101, 101, 100, 110, 111, 100, 101>>

\* "｜" (U+FF5C), the delimiter of name.split
DELIM == <<65372>>

\* "("
LPAREN == <<40>>

\* "unknown"
UNKNOWN == <<117, 110, 107, 110, 111, 119, 110>>

\* "garbage"
GARBAGE == <<103, 97, 114, 98, 97, 103, 101>>

\* the characters str.strip() removes (ASCII white space and U+3000)
Whitespace == {9, 10, 11, 12, 13, 32, 12288}

\* str.lower() on one code point (ASCII letters; the other code points of the
\* names of the model have no case)
LowerChar(c) == IF c >= 65 /\ c <= 90 THEN c + 32 ELSE c

Lower(str) == [i \in 1..Len(str) |-> LowerChar(str[i])]

\* sub in str
Contains(str, sub) ==
  \E i \in 0..(Len(str) - Len(sub)) :
    \A j \in 1..Len(sub) : str[i + j] = sub[j]

\* str.split(sep) for a one-character separator: the parts between the separators
RECURSIVE Split(_, _)
Split(str, sep) ==
  IF \A i \in 1..Len(str) : str[i] # sep
  THEN <<str>>
  ELSE LET k == CHOOSE i \in 1..Len(str) :
                  /\ str[i] = sep
                  /\ \A j \in 1..(i - 1) : str[j] # sep
       IN <<SubSeq(str, 1, k - 1)>> \o Split(SubSeq(str, k + 1, Len(str)), sep)

\* str.strip()
RECURSIVE Strip(_)
Strip(str) ==
  IF str = <<>> THEN <<>>
  ELSE IF str[1] \in Whitespace THEN Strip(Tail(str))
  ELSE IF str[Len(str)] \in Whitespace THEN Strip(SubSeq(str, 1, Len(str) - 1))
  ELSE str

\* a < b in Python's order of str: lexicographic by code point
RECURSIVE StrLess(_, _)
StrLess(a, b) ==
  IF b = <<>> THEN FALSE
  ELSE IF a = <<>> THEN TRUE
  ELSE IF a[1] # b[1] THEN a[1] < b[1]
  ELSE StrLess(Tail(a), Tail(b))

\* dict.get(k, default)
Get(d, k, default) == IF k \in DOMAIN d THEN d[k] ELSE default

\* ------------------------------------------------------------------------
\* Node scoring model
\* ------------------------------------------------------------------------

\* the scale of the fixed-point evaluation of exp
FX == 3 * 10000

\* exp(-x / 1000) * FX for x >= 0 in thousandths: the Taylor series of
\* exp(-x/4) to the tenth power, squared twice
ExpNeg(x) ==
  LET t == (x * FX) \div 4000
      RECURSIVE Series(_, _, _)
      Series(k, term, acc) ==
        IF k > 10 THEN acc
        ELSE LET nt == (term * t) \div (FX * k)
             IN Series(k + 1, nt, IF k % 2 = 1 THEN acc - nt ELSE acc + nt)
      q == Series(1, FX, FX)
      h == (q * q) \div FX
  IN (h * h) \div FX

\* _sigmoid(z) * 100, in hundredths: both branches of the code
sigmoid100(z) ==
  IF z >= 0
  THEN LET ez == ExpNeg(z) IN (10000 * FX) \div (FX + ez)
  ELSE LET ez == ExpNeg(-z) IN (10000 * ez) \div (FX + ez)

\* mutant of parse_name: the fast-node tag is looked for before the marker of
\* garbage names
parse_name_SpeedFirst(name) ==
  IF Contains(Lower(name), SPEEDNODE_MARK)
  THEN <<"speednode", SPEEDNODE_MARK, UNKNOWN>>
  ELSE IF Contains(name, GARBAGE_MARK)
  THEN <<"garbage", GARBAGE, GARBAGE>>
  ELSE LET parts == Split(name, DELIM[1])
       IN IF Len(parts) >= 3
          THEN LET l0 == Strip(parts[2])
                   r0 == Strip(Split(Strip(parts[3]), LPAREN[1])[1])
               IN <<"tagged",
                    IF l0 = <<>> THEN UNKNOWN ELSE l0,
                    IF r0 = <<>> THEN UNKNOWN ELSE r0>>
          ELSE <<"other", UNKNOWN, UNKNOWN>>

\* _parse_name(name) -> (kind, line, risk)
parse_name(name) ==
  IF Contains(name, GARBAGE_MARK)
  THEN <<"garbage", GARBAGE, GARBAGE>>
  ELSE IF Contains(Lower(name), SPEEDNODE_MARK)
  THEN <<"speednode", SPEEDNODE_MARK, UNKNOWN>>
  ELSE LET parts == Split(name, DELIM[1])
       IN IF Len(parts) >= 3
          THEN LET l0 == Strip(parts[2])
                   r0 == Strip(Split(Strip(parts[3]), LPAREN[1])[1])
               IN <<"tagged",
                    IF l0 = <<>> THEN UNKNOWN ELSE l0,
                    IF r0 = <<>> THEN UNKNOWN ELSE r0>>
          ELSE <<"other", UNKNOWN, UNKNOWN>>

\* mutant of base_score: the kind of a name has no weight
base_score_NoKind(name) ==
  LET p == parse_name(name)
      z0 == BASE_BIAS
      z == IF p[1] = "tagged"
           THEN z0 + Get(LINE_W, p[2], 0) + Get(RISK_W, p[3], 0)
           ELSE z0
  IN sigmoid100(z)

\* mutant of base_score: the risk of a tagged name has no weight
base_score_NoRisk(name) ==
  LET p == parse_name(name)
      z0 == BASE_BIAS + Get(KIND_W, p[1], 0)
      z == IF p[1] = "tagged" THEN z0 + Get(LINE_W, p[2], 0) ELSE z0
  IN sigmoid100(z)

\* _base_score(name), in hundredths of a point
base_score(name) ==
  LET p == parse_name(name)
      z0 == BASE_BIAS + Get(KIND_W, p[1], 0)
      z == IF p[1] = "tagged"
           THEN z0 + Get(LINE_W, p[2], 0) + Get(RISK_W, p[3], 0)
           ELSE z0
  IN sigmoid100(z)


\* ------------------------------------------------------------------------
\* The nodes, callers and inputs of the model
\* ------------------------------------------------------------------------

\* id |-> name: "a｜商宽｜低风险", "b｜机房｜高风险", "SpeedNode-1",
\* "SpeedNode-2", "hk-01" (kind other) and "g｜商宽｜低风险" followed by the
\* marker of garbage names (kind garbage)
NameText ==
  [A |-> <<97, 65372, 21830, 23485, 65372, 20302, 39118, 38505>>,
   B |-> <<98, 65372, 26426, 25151, 65372, 39640, 39118, 38505>>,
   S |-> <<83, 112, 101, 101, 100, 78, 111, 100, 101, 45, 49>>,
   T |-> <<83, 112, 101, 101, 100, 78, 111, 100, 101, 45, 50>>,
   O |-> <<104, 107, 45, 48, 49>>,
   G |-> <<103, 65372, 21830, 23485, 65372, 20302, 39118, 38505>> \o GARBAGE_MARK]

\* the nodes of the group in the specifications of the pool
Nodes == {"A", "S"}

\* the base score of every node, evaluated once
BaseOf == [n \in DOMAIN NameText |-> base_score(NameText[n])]

\* the threads that call into the one ProxyPool
Threads == {"w1", "w2"}

\* the values of the "all" member of the group in a /proxies response
AllLists == {<<"DIRECT", "REJECT">>, <<"DIRECT", "A", "S", "REJECT">>}

\* the value of "all" when the members of the group are not fixed
AnyList == <<"*">>

\* the lists a read of "all" may give
GroupAnswers(all) == IF all = AnyList THEN AllLists ELSE {all}

\* the member lists of a group whose members stay: sentinels at any place, or
\* none, or nothing but sentinels
GroupLists ==
  {<<>>, <<"DIRECT", "REJECT">>, <<"DIRECT", "A", "S", "REJECT">>,
   <<"S", "REJECT", "A">>, <<"REJECT", "A">>}

\* the "alive" flag of a node in a /proxies response: true, false or missing
AliveFlags == {"True", "False", None}

\* the kind argument of on_failure, as classify_failure gives it
FailureKinds == {"risk", "proxy", "mail", "other"}

\* what a probe observes: an HTTP status, or an exception of requests.get
Status(c) == [exc |-> FALSE, status |-> c]

ProbeResults == {Status(204), Status(407)}

\* one tick of time.monotonic(), in seconds
TickSeconds == REFRESH_IDLE_SECONDS \div 2

EmptyMap == [n \in {} |-> None]

VARIABLES
  s,               \* ProxyPoolSettings: [enabled, required]
  lock,            \* self._lock: the thread that holds it, or None
  dyn_penalty,     \* self._dyn_penalty: node -> penalty
  last_switch_ts,  \* self._last_switch_ts
  clock,           \* time.monotonic()
  group_now,       \* the "now" of group POOL_ACTIVE inside the proxy engine
  group_all,       \* the "all" of that group: a list that stays, or AnyList
                   \* when the engine's members may differ from read to read
  pc,              \* thread -> where it is in ensure_proxy_reachable / on_failure
  fr,              \* thread -> the local variables of its call (the counter
                   \* switches, which is only logged, is left out)
  failures,        \* the number of on_failure calls so far
  call,            \* the call of a function taken on its own (its arguments and
                   \* its result), NoCall in the specifications of the pool
  host,            \* what the pool keeps outside the Python process: the
                   \* provider file, the pid file and the engine processes
  reg,             \* RegisterService._register_one: where it is, and its locals
  via,             \* worker thread -> the node that was current when its
                   \* ensure_proxy_reachable of the register loop returned
  svc              \* RegisterService and PoolService on the event loop: the
                   \* register tasks, the current task id, the environment,
                   \* and maintain_once's position, locals and status flag

vars ==
  <<s, lock, dyn_penalty, last_switch_ts, clock, group_now, group_all, pc, fr,
    failures, call, host, reg, via, svc>>

\* no registration runs
Reg0 == [at |-> "none", err |-> <<>>, kind |-> None, detail |-> <<>>, result |-> None]

\* no provider file (providers_dir / "chromego.yaml")
NoFile == [exists |-> FALSE, proxies |-> <<>>]

\* nothing on the host yet: no provider file, no pid file (pid 0), no live
\* process, no process whose controller answers, no engine spawned.
\* The specifications of the selection loop leave the host as it is.
Host0 ==
  [provider |-> NoFile, pid |-> 0, live |-> {}, ready |-> {}, spawned |-> 0]

\* a worker that is not between an ensure_proxy_reachable of the register
\* loop and the end of its attempt
NoAttempt == [at |-> "none", node |-> None]

\* no worker is in an attempt
Via0 == [t \in Threads |-> NoAttempt]

\* the ids that uuid.uuid4() gives to register tasks
TaskIds == {"t1", "t2", "t3"}

\* no task under an id
Task0 == [status |-> "absent", count |-> 0, progress |-> 0, fail_count |-> 0]

\* maintain_once is not running: its position and its locals target, healthy,
\* deleted (non-empty or not) and register_running
Maint0 ==
  [at |-> "idle", target |-> 0, healthy |-> 0, deleted |-> FALSE,
   register_running |-> FALSE]

\* PoolStatus.last_result before the first run
NoResult == [kind |-> "none", register_started |-> FALSE]

\* the services before any call: ACCOUNTS_CONFIG is not set, no task, no
\* current task id, PoolStatus.running is False
Svc0 ==
  [accounts_config |-> FALSE, tasks |-> [i \in TaskIds |-> Task0],
   current |-> None, m |-> Maint0, running |-> FALSE, last_result |-> NoResult]

\* no function is called on its own
NoCall == [fn |-> "none"]

\* the locals of a thread that is in no call; tried lists the nodes that
\* the call has run _preflight() against so far
Frame0 ==
  [op |-> "none", fnode |-> None, now |-> None,
   candidates |-> <<>>, alive_map |-> EmptyMap, best |-> None,
   ok |-> FALSE, details |-> <<>>, tried |-> <<>>]

Range(seq) == {seq[i] : i \in 1..Len(seq)}

\* [x for x in seq if x in keep], in order
RECURSIVE Filter(_, _)
Filter(seq, keep) ==
  IF seq = <<>> THEN <<>>
  ELSE IF seq[1] \in keep THEN <<seq[1]>> \o Filter(Tail(seq), keep)
  ELSE Filter(Tail(seq), keep)

\* ------------------------------------------------------------------------
\* Scores and penalties
\* ------------------------------------------------------------------------

\* _score(name) = base - dyn_penalty.get(name, 0.0)
score(dyn, name) == BaseOf[name] - Get(dyn, name, 0)

\* mutant of PenaltyOf: a kind outside the table costs nothing
PenaltyOf_OtherIsFree(kind) ==
  IF kind = "preflight" THEN PENALTY_PREFLIGHT
  ELSE IF kind = "risk" THEN PENALTY_RISK
  ELSE IF kind = "proxy" THEN PENALTY_PROXY
  ELSE IF kind = "mail" THEN PENALTY_MAIL
  ELSE 0

\* the weight _apply_penalty picks for a kind
PenaltyOf(kind) ==
  IF kind = "preflight" THEN PENALTY_PREFLIGHT
  ELSE IF kind = "risk" THEN PENALTY_RISK
  ELSE IF kind = "proxy" THEN PENALTY_PROXY
  ELSE IF kind = "mail" THEN PENALTY_MAIL
  ELSE PENALTY_RISK

\* d[k] = v on a dict
Put(d, k, v) == [x \in DOMAIN d \cup {k} |-> IF x = k THEN v ELSE d[x]]

\* mutant of apply_penalty: the new value is computed and not stored
apply_penalty_Lost(dyn, name, kind) == Put(dyn, name, Get(dyn, name, 0))

\* mutant of apply_penalty: the weight is subtracted
apply_penalty_Subtract(dyn, name, kind) ==
  Put(dyn, name, Get(dyn, name, 0) - PenaltyOf(kind))

\* mutant of _apply_penalty: a tenth of the kind's penalty is added
apply_penalty_Tenth(dyn, name, kind) ==
  Put(dyn, name, Get(dyn, name, 0) + PenaltyOf(kind) \div 10)

\* _apply_penalty(name, kind): the ledger afterwards
apply_penalty(dyn, name, kind) ==
  Put(dyn, name, Get(dyn, name, 0) + PenaltyOf(kind))

\* for n in candidates: self._dyn_penalty.setdefault(n, 0.0)
setdefault_all(dyn, candidates) ==
  [x \in DOMAIN dyn \cup Range(candidates) |-> Get(dyn, x, 0)]

\* mutant of _maybe_refresh_dynamic: idle <= threshold returns early
maybe_refresh_dynamic_OffByOne(dyn, ts, t) ==
  LET idle == t - ts
  IN IF idle <= REFRESH_IDLE_SECONDS THEN <<dyn, ts>>
     ELSE IF ~(\E k \in DOMAIN dyn : dyn[k] > 0) THEN <<dyn, t>>
     ELSE <<[k \in DOMAIN dyn |-> 0], t>>

\* mutant of _maybe_refresh_dynamic: with no penalty the timer is left alone
maybe_refresh_dynamic_KeepTimer(dyn, ts, t) ==
  LET idle == t - ts
  IN IF idle < REFRESH_IDLE_SECONDS THEN <<dyn, ts>>
     ELSE IF ~(\E k \in DOMAIN dyn : dyn[k] > 0) THEN <<dyn, ts>>
     ELSE <<[k \in DOMAIN dyn |-> 0], t>>

\* _maybe_refresh_dynamic(): <<ledger, idle timer>> afterwards, at time t
maybe_refresh_dynamic(dyn, ts, t) ==
  LET idle == t - ts
  IN IF idle < REFRESH_IDLE_SECONDS THEN <<dyn, ts>>
     ELSE IF ~(\E k \in DOMAIN dyn : dyn[k] > 0) THEN <<dyn, t>>
     ELSE <<[k \in DOMAIN dyn |-> 0], t>>

\* ------------------------------------------------------------------------
\* Candidates, ranking, preflight
\* ------------------------------------------------------------------------

\* mutant of get_group_candidates: only DIRECT is filtered out
get_group_candidates_KeepReject(all_list) ==
  Filter(all_list, Range(all_list) \ {"DIRECT"})

\* candidates = [n for n in all_list if n not in {"DIRECT", "REJECT"}]
get_group_candidates(all_list) ==
  Filter(all_list, Range(all_list) \ Sentinels)

\* mutant of no_candidates: the loop goes on with no candidate
no_candidates_Never(candidates) == FALSE

\* if not candidates, line 581
no_candidates(candidates) == candidates = <<>>

\* mutant of usable_candidates: the nodes marked dead stay
usable_candidates_NoFilter(candidates, alive_map) == candidates

\* usable = [n for n in candidates if alive_map.get(n) is not False];
\* candidates = usable if usable else candidates
usable_candidates(candidates, alive_map) ==
  LET usable ==
        Filter(candidates,
               {n \in Range(candidates) : Get(alive_map, n, None) # "False"})
  IN IF usable # <<>> THEN usable ELSE candidates

\* mutant of alive_rank: liveness does not count
alive_rank_Flat(v) == 1

\* _alive_rank(v)
alive_rank(v) == IF v = "True" THEN 2 ELSE 1

\* mutant of KeyLess: the name counts in the reverse order
KeyLess_NameReversed(dyn, alive_map, m, n) ==
  LET rm == alive_rank(Get(alive_map, m, None))
      rn == alive_rank(Get(alive_map, n, None))
      sm == score(dyn, m)
      sn == score(dyn, n)
  IN \/ rm < rn
     \/ rm = rn /\ sm < sn
     \/ rm = rn /\ sm = sn /\ StrLess(NameText[n], NameText[m])

\* (rank, score, name) < (rank, score, name) as Python compares tuples
KeyLess(dyn, alive_map, m, n) ==
  LET rm == alive_rank(Get(alive_map, m, None))
      rn == alive_rank(Get(alive_map, n, None))
      sm == score(dyn, m)
      sn == score(dyn, n)
  IN \/ rm < rn
     \/ rm = rn /\ sm < sn
     \/ rm = rn /\ sm = sn /\ StrLess(NameText[m], NameText[n])

\* max(candidates, key=lambda n: (_alive_rank(alive_map.get(n)), _score(n), n))
best_of(dyn, candidates, alive_map) ==
  CHOOSE n \in Range(candidates) :
    \A m \in Range(candidates) : ~KeyLess(dyn, alive_map, n, m)

\* mutant of exhausted: the threshold with the wrong sign
exhausted_NegThreshold(dyn, best) == score(dyn, best) < -SCORE_THRESHOLD

\* best_score < float(SCORE_THRESHOLD), line 611
exhausted(dyn, best) == score(dyn, best) < SCORE_THRESHOLD

\* mutant of sticky: the current node is kept only while no candidate scores higher
sticky_OnlyIfTop(dyn, now, candidates) ==
  /\ now # None
  /\ now \in Range(candidates)
  /\ score(dyn, now) >= SCORE_THRESHOLD
  /\ \A m \in Range(candidates) : score(dyn, m) <= score(dyn, now)

\* the sticky test: now and now in candidates and _score(now) >= SCORE_THRESHOLD
sticky(dyn, now, candidates) ==
  /\ now # None
  /\ now \in Range(candidates)
  /\ score(dyn, now) >= SCORE_THRESHOLD

\* _probe_once(url) on a probe result: <<ok, detail>>
probe_once(r) ==
  IF r.exc THEN <<FALSE, r>>
  ELSE IF r.status = 407 THEN <<FALSE, r>>
  ELSE IF 200 <= r.status /\ r.status < 400 THEN <<TRUE, r>>
  ELSE <<FALSE, r>>

\* _preflight() on the results the URLs would give, in order: <<ok, details>>
RECURSIVE preflight_from(_, _, _)
preflight_from(results, i, details) ==
  IF i > Len(PREFLIGHT_URLS) THEN <<TRUE, details>>
  ELSE LET p == probe_once(results[i])
       IN IF ~p[1] THEN <<FALSE, Append(details, p[2])>>
          ELSE preflight_from(results, i + 1, Append(details, p[2]))

\* mutant of preflight: every URL is probed, also after a failure
preflight_NoStop(results) ==
  <<\A i \in 1..Len(PREFLIGHT_URLS) : probe_once(results[i])[1],
    [i \in 1..Len(PREFLIGHT_URLS) |-> probe_once(results[i])[2]]>>

\* mutant of preflight: only the first URL decides
preflight_FirstOnly(results) ==
  <<probe_once(results[1])[1], preflight_from(results, 1, <<>>)[2]>>

preflight(results) == preflight_from(results, 1, <<>>)

\* ------------------------------------------------------------------------
\* The state machine
\* ------------------------------------------------------------------------

Init ==
  /\ s \in [enabled : BOOLEAN, required : {TRUE}]
  /\ lock = None
  /\ dyn_penalty = EmptyMap
  /\ last_switch_ts = 0
  /\ clock = 0
  /\ group_now \in Nodes \cup {None}
  /\ group_all = AnyList
  /\ pc = [t \in Threads |-> "idle"]
  /\ fr = [t \in Threads |-> Frame0]
  /\ failures = 0
  /\ call = NoCall
  /\ host = Host0
  /\ reg = Reg0
  /\ via = Via0
  /\ svc = Svc0

\* mutant of can_acquire: the lock never blocks
can_acquire_Always(lk) == TRUE

\* threading.Lock: with self._lock blocks until no thread holds the lock (the
\* lock is not reentrant)
can_acquire(lk) == lk = None

\* the same with one caller only
InitOne ==
  /\ s \in [enabled : BOOLEAN, required : {TRUE}]
  /\ lock = None
  /\ dyn_penalty = EmptyMap
  /\ last_switch_ts = 0
  /\ clock = 0
  /\ group_now \in Nodes \cup {None}
  /\ group_all = AnyList
  /\ pc = [t \in {"w1"} |-> "idle"]
  /\ fr = [t \in {"w1"} |-> Frame0]
  /\ failures = 0
  /\ call = NoCall
  /\ host = Host0
  /\ reg = Reg0
  /\ via = Via0
  /\ svc = Svc0

\* one caller and a group whose members stay; the group's now may be a sentinel
InitGroup ==
  /\ s \in [enabled : BOOLEAN, required : {TRUE}]
  /\ lock = None
  /\ dyn_penalty = EmptyMap
  /\ last_switch_ts = 0
  /\ clock = 0
  /\ group_now \in Nodes \cup {None, "DIRECT"}
  /\ group_all \in GroupLists
  /\ pc = [t \in {"w1"} |-> "idle"]
  /\ fr = [t \in {"w1"} |-> Frame0]
  /\ failures = 0
  /\ call = NoCall
  /\ host = Host0
  /\ reg = Reg0
  /\ via = Via0
  /\ svc = Svc0

\* t leaves its call (a return or a raise) from outside the lock
Leave(t) ==
  /\ pc' = [pc EXCEPT ![t] = "idle"]
  /\ fr' = [fr EXCEPT ![t] = Frame0]

\* t leaves its call from inside a with self._lock block
LeaveUnlock(t) ==
  /\ Leave(t)
  /\ lock' = None

\* time.monotonic() advances by one tick.  A tick is hours and a call holds the
\* lock for seconds, so time advances between the critical sections; the code
\* reads only the difference to the idle timer.
Tick ==
  /\ clock < MaxTicks * TickSeconds
  /\ lock = None
  /\ clock' = clock + TickSeconds
  /\ UNCHANGED <<svc, via, reg, host, call, group_all, s, lock, dyn_penalty, last_switch_ts, group_now, pc, fr, failures>>

\* ensure_proxy_reachable(), lines 569-573, to the lock of ensure_started
Call_ensure_proxy_reachable(t) ==
  /\ pc[t] = "idle"
  /\ IF ~s.enabled
     THEN UNCHANGED <<lock, pc, fr>>
     ELSE /\ can_acquire(lock)
          /\ lock' = t
          /\ pc' = [pc EXCEPT ![t] = "es_body"]
          /\ fr' = [fr EXCEPT ![t] = [Frame0 EXCEPT !.op = "epr"]]
  /\ UNCHANGED <<svc, via, reg, host, call, group_all, s, dyn_penalty, last_switch_ts, clock, group_now, failures>>

\* mutant of Call_on_failure: the enabled flag is not looked at
Call_on_failure_NoGuard(t) ==
  /\ pc[t] = "idle"
  /\ failures < MaxFailures
  /\ failures' = failures + 1
  /\ can_acquire(lock)
  /\ lock' = t
  /\ pc' = [pc EXCEPT ![t] = "es_body"]
  /\ fr' = [fr EXCEPT ![t] = [Frame0 EXCEPT !.op = "of_pre"]]
  /\ UNCHANGED <<svc, via, reg, host, call, group_all, s, dyn_penalty, last_switch_ts, clock, group_now>>

\* on_failure(kind, detail), lines 649-653, to the lock of ensure_started
Call_on_failure(t) ==
  /\ pc[t] = "idle"
  /\ failures < MaxFailures
  /\ failures' = failures + 1
  /\ IF ~s.enabled
     THEN UNCHANGED <<lock, pc, fr>>
     ELSE /\ can_acquire(lock)
          /\ lock' = t
          /\ pc' = [pc EXCEPT ![t] = "es_body"]
          /\ fr' = [fr EXCEPT ![t] = [Frame0 EXCEPT !.op = "of_pre"]]
  /\ UNCHANGED <<svc, via, reg, host, call, group_all, s, dyn_penalty, last_switch_ts, clock, group_now>>

\* ensure_started() waits for the lock: reached from the calls of
\* ensure_proxy_reachable that on_failure makes (lines 658 and 663)
es_acquire(t) ==
  /\ pc[t] = "es_lock"
  /\ can_acquire(lock)
  /\ lock' = t
  /\ pc' = [pc EXCEPT ![t] = "es_body"]
  /\ UNCHANGED <<svc, via, reg, host, call, group_all, s, dyn_penalty, last_switch_ts, clock, group_now, fr, failures>>

\* ensure_started(), lines 467-474: fetch_provider and start_mihomo succeed or
\* one of them raises; the exception is raised again iff the pool is required
es_body(t) ==
  /\ pc[t] = "es_body"
  /\ \E failed \in BOOLEAN :
       IF failed /\ s.required
       THEN LeaveUnlock(t)
       ELSE /\ lock' = None
            /\ pc' = [pc EXCEPT ![t] =
                        IF fr[t].op = "of_pre" THEN "of_lock" ELSE "epr_lock"]
            /\ fr' = fr
  /\ UNCHANGED <<svc, via, reg, host, call, group_all, s, dyn_penalty, last_switch_ts, clock, group_now, failures>>

\* with self._lock, line 575
epr_acquire(t) ==
  /\ pc[t] = "epr_lock"
  /\ can_acquire(lock)
  /\ lock' = t
  /\ pc' = [pc EXCEPT ![t] = "epr_refresh"]
  /\ UNCHANGED <<svc, via, reg, host, call, group_all, s, dyn_penalty, last_switch_ts, clock, group_now, fr, failures>>

\* self._maybe_refresh_dynamic(), line 576
epr_refresh(t) ==
  /\ pc[t] = "epr_refresh"
  /\ LET r == maybe_refresh_dynamic(dyn_penalty, last_switch_ts, clock)
     IN /\ dyn_penalty' = r[1]
        /\ last_switch_ts' = r[2]
  /\ pc' = [pc EXCEPT ![t] = "epr_head"]
  /\ UNCHANGED <<svc, via, reg, host, call, group_all, s, lock, clock, group_now, fr, failures>>

\* the head of the loop, lines 580-601: _get_group() raises, or gives the
\* group; no candidates raises; setdefault; the usable filter; the sticky test
epr_head_on(t, nodes) ==
  /\ pc[t] = "epr_head"
  /\ \/ /\ LeaveUnlock(t)
        /\ UNCHANGED dyn_penalty
     \/ \E all_list \in GroupAnswers(group_all), alive \in [nodes -> AliveFlags] :
          LET now == group_now
              candidates == get_group_candidates(all_list)
              alive_map == [n \in Range(candidates) |-> Get(alive, n, None)]
              dyn == setdefault_all(dyn_penalty, candidates)
              usable == usable_candidates(candidates, alive_map)
          IN IF no_candidates(candidates)
             THEN /\ LeaveUnlock(t)
                  /\ UNCHANGED dyn_penalty
             ELSE /\ dyn_penalty' = dyn
                  /\ fr' = [fr EXCEPT ![t] =
                              [@ EXCEPT !.now = now, !.candidates = usable,
                                        !.alive_map = alive_map, !.best = None,
                                        !.ok = FALSE, !.details = <<>>]]
                  /\ pc' = [pc EXCEPT ![t] =
                              IF sticky(dyn, now, usable)
                              THEN "epr_sticky_preflight" ELSE "epr_pick"]
                  /\ UNCHANGED lock
  /\ UNCHANGED <<svc, via, reg, host, call, group_all, s, last_switch_ts, clock, group_now, failures>>

\* the head of the loop when the engine knows the nodes of Nodes
epr_head(t) == epr_head_on(t, Nodes)

\* ok, details = self._preflight(), lines 602 and 638
run_preflight(t, at, to) ==
  /\ pc[t] = at
  /\ \E results \in [1..Len(PREFLIGHT_URLS) -> ProbeResults] :
       LET p == preflight(results)
       IN fr' = [fr EXCEPT ![t] = [@ EXCEPT !.ok = p[1], !.details = p[2],
                                            !.tried = Append(@, fr[t].now)]]
  /\ pc' = [pc EXCEPT ![t] = to]
  /\ UNCHANGED <<svc, via, reg, host, call, group_all, s, lock, dyn_penalty, last_switch_ts, clock, group_now, failures>>

epr_sticky_preflight(t) ==
  run_preflight(t, "epr_sticky_preflight", "epr_sticky_done")

\* mutant of epr_sticky_done: a failed preflight is raised to the caller
epr_sticky_done_Raise(t) ==
  /\ pc[t] = "epr_sticky_done"
  /\ LeaveUnlock(t)
  /\ UNCHANGED <<svc, via, reg, host, call, group_all, s, dyn_penalty, last_switch_ts, clock,
                 group_now, failures>>

\* what a worker's attempt goes through after ensure_proxy_reachable returned
\* with now selected: the browser of lines 146-170 uses pool.proxy_server, the
\* engine's port, after a call made by the register loop (op = "epr"); a call
\* made by on_failure starts no attempt
returned_via(t, record) ==
  IF record /\ fr[t].op = "epr"
  THEN [via EXCEPT ![t] = [at |-> "attempt", node |-> fr[t].now]]
  ELSE via

\* lines 603-607: return, or the preflight penalty on now; record says
\* whether the caller is a worker of the register loop
epr_sticky_done_rec(t, record) ==
  /\ pc[t] = "epr_sticky_done"
  /\ IF fr[t].ok
     THEN /\ LeaveUnlock(t)
          /\ via' = returned_via(t, record)
          /\ UNCHANGED dyn_penalty
     ELSE /\ dyn_penalty' = apply_penalty(dyn_penalty, fr[t].now, "preflight")
          /\ pc' = [pc EXCEPT ![t] = "epr_pick"]
          /\ UNCHANGED <<via, lock, fr>>
  /\ UNCHANGED <<svc, reg, host, call, group_all, s, last_switch_ts, clock, group_now, failures>>

\* lines 603-607 for a caller that is followed no further
epr_sticky_done(t) ==
  epr_sticky_done_rec(t, FALSE)

\* lines 609-612: the best pick, or the pool-exhausted error
epr_pick(t) ==
  /\ pc[t] = "epr_pick"
  /\ LET best == best_of(dyn_penalty, fr[t].candidates, fr[t].alive_map)
     IN IF exhausted(dyn_penalty, best)
        THEN LeaveUnlock(t)
        ELSE /\ fr' = [fr EXCEPT ![t] = [@ EXCEPT !.best = best]]
             /\ pc' = [pc EXCEPT ![t] = "epr_switch"]
             /\ UNCHANGED lock
  /\ UNCHANGED <<svc, via, reg, host, call, group_all, s, dyn_penalty, last_switch_ts, clock, group_now, failures>>

\* mutant of epr_switch: a select call leaves the idle timer as it is
epr_switch_NoTimer(t) ==
  /\ pc[t] = "epr_switch"
  /\ IF fr[t].best # fr[t].now
     THEN \/ /\ LeaveUnlock(t)
             /\ UNCHANGED <<group_now, last_switch_ts>>
          \/ /\ group_now' = fr[t].best
             /\ fr' = [fr EXCEPT ![t] =
                         [@ EXCEPT !.now = fr[t].best, !.candidates = <<>>,
                                   !.alive_map = EmptyMap]]
             /\ pc' = [pc EXCEPT ![t] = "epr_preflight"]
             /\ UNCHANGED <<lock, last_switch_ts>>
     ELSE /\ fr' = [fr EXCEPT ![t] =
                      [@ EXCEPT !.candidates = <<>>, !.alive_map = EmptyMap]]
          /\ pc' = [pc EXCEPT ![t] = "epr_preflight"]
          /\ UNCHANGED <<lock, group_now, last_switch_ts>>
  /\ UNCHANGED <<svc, via, reg, host, call, group_all, s, dyn_penalty, clock, failures>>

\* lines 614-636: if best != now, _select_group(best) (which raises on an HTTP
\* error), the idle timer, now = best
epr_switch(t) ==
  /\ pc[t] = "epr_switch"
  /\ IF fr[t].best # fr[t].now
     THEN \/ /\ LeaveUnlock(t)
             /\ UNCHANGED <<group_now, last_switch_ts>>
          \/ /\ group_now' = fr[t].best
             /\ last_switch_ts' = clock
             /\ fr' = [fr EXCEPT ![t] =
                         [@ EXCEPT !.now = fr[t].best, !.candidates = <<>>,
                                   !.alive_map = EmptyMap]]
             /\ pc' = [pc EXCEPT ![t] = "epr_preflight"]
             /\ UNCHANGED lock
     ELSE /\ fr' = [fr EXCEPT ![t] =
                      [@ EXCEPT !.candidates = <<>>, !.alive_map = EmptyMap]]
          /\ pc' = [pc EXCEPT ![t] = "epr_preflight"]
          /\ UNCHANGED <<lock, group_now, last_switch_ts>>
  /\ UNCHANGED <<svc, via, reg, host, call, group_all, s, dyn_penalty, clock, failures>>

epr_preflight(t) ==
  run_preflight(t, "epr_preflight", "epr_preflight_done")

\* lines 639-647: return, or the preflight penalty on now and the next iteration
epr_preflight_done_rec(t, record) ==
  /\ pc[t] = "epr_preflight_done"
  /\ IF fr[t].ok
     THEN /\ LeaveUnlock(t)
          /\ via' = returned_via(t, record)
          /\ UNCHANGED dyn_penalty
     ELSE /\ dyn_penalty' =
               IF fr[t].now # None
               THEN apply_penalty(dyn_penalty, fr[t].now, "preflight")
               ELSE dyn_penalty
          /\ pc' = [pc EXCEPT ![t] = "epr_head"]
          /\ UNCHANGED <<via, lock, fr>>
  /\ UNCHANGED <<svc, reg, host, call, group_all, s, last_switch_ts, clock, group_now, failures>>

\* lines 639-647 for a caller that is followed no further
epr_preflight_done(t) ==
  epr_preflight_done_rec(t, FALSE)

\* with self._lock, line 655
of_acquire(t) ==
  /\ pc[t] = "of_lock"
  /\ can_acquire(lock)
  /\ lock' = t
  /\ pc' = [pc EXCEPT ![t] = "of_get"]
  /\ UNCHANGED <<svc, via, reg, host, call, group_all, s, dyn_penalty, last_switch_ts, clock, group_now, fr, failures>>

\* lines 656-663: _get_group() raises; or there is no current node and
\* ensure_proxy_reachable is called with the lock held; or the penalty of the
\* kind goes to the current node, the lock is released and
\* ensure_proxy_reachable is called.  Either call starts with ensure_started.
of_get(t) ==
  /\ pc[t] = "of_get"
  /\ \/ /\ LeaveUnlock(t)
        /\ UNCHANGED dyn_penalty
     \/ /\ group_now = None
        /\ fr' = [fr EXCEPT ![t] = [@ EXCEPT !.op = "of_nested"]]
        /\ pc' = [pc EXCEPT ![t] = "es_lock"]
        /\ UNCHANGED <<lock, dyn_penalty>>
     \/ /\ group_now # None
        /\ \E kind \in FailureKinds :
             /\ dyn_penalty' = apply_penalty(dyn_penalty, group_now, kind)
             /\ fr' = [fr EXCEPT ![t] =
                         [@ EXCEPT !.op = "of_post", !.fnode = group_now]]
        /\ lock' = None
        /\ pc' = [pc EXCEPT ![t] = "es_lock"]
  /\ UNCHANGED <<svc, via, reg, host, call, group_all, s, last_switch_ts, clock, group_now, failures>>

Step(t) ==
  \/ Call_ensure_proxy_reachable(t)
  \/ Call_on_failure(t)
  \/ es_acquire(t)
  \/ es_body(t)
  \/ epr_acquire(t)
  \/ epr_refresh(t)
  \/ epr_head(t)
  \/ epr_sticky_preflight(t)
  \/ epr_sticky_done(t)
  \/ epr_pick(t)
  \/ epr_switch(t)
  \/ epr_preflight(t)
  \/ epr_preflight_done(t)
  \/ of_acquire(t)
  \/ of_get(t)

Next == Tick \/ \E t \in Threads : Step(t)

\* the steps of the one caller of InitOne
NextOne == Tick \/ Step("w1")

Spec == Init /\ [][Next]_vars

\* the steps of t inside the selection loop
LoopStep(t) ==
  \/ epr_head(t)
  \/ epr_sticky_preflight(t)
  \/ epr_sticky_done(t)
  \/ epr_pick(t)
  \/ epr_switch(t)
  \/ epr_preflight(t)
  \/ epr_preflight_done(t)

\* One caller, which is not stopped inside the loop: there it holds the lock,
\* so that no other caller acts on the pool, and every call it makes (control
\* API, probe, sleep) has a timeout.
SpecOne == InitGroup /\ [][NextOne]_vars

SpecOneFair == InitOne /\ [][NextOne]_vars /\ WF_vars(LoopStep("w1"))

\* One caller and a group of the tagged nodes A (line 商宽, risk 低风险) and B
\* (line 机房, risk 高风险).
ABLists == {<<"B">>, <<"A", "B">>, <<"DIRECT", "B", "A", "REJECT">>}

InitAB ==
  /\ s \in [enabled : BOOLEAN, required : {TRUE}]
  /\ lock = None
  /\ dyn_penalty = EmptyMap
  /\ last_switch_ts = 0
  /\ clock = 0
  /\ group_now \in {None, "A", "B"}
  /\ group_all \in ABLists
  /\ pc = [t \in {"w1"} |-> "idle"]
  /\ fr = [t \in {"w1"} |-> Frame0]
  /\ failures = 0
  /\ call = NoCall
  /\ host = Host0
  /\ reg = Reg0
  /\ via = Via0
  /\ svc = Svc0

epr_head_AB(t) == epr_head_on(t, {"A", "B"})

NextAB ==
  \/ Call_ensure_proxy_reachable("w1")
  \/ es_body("w1")
  \/ epr_acquire("w1")
  \/ epr_refresh("w1")
  \/ epr_head_AB("w1")
  \/ epr_sticky_preflight("w1")
  \/ epr_sticky_done("w1")
  \/ epr_pick("w1")
  \/ epr_switch("w1")
  \/ epr_preflight("w1")
  \/ epr_preflight_done("w1")

SpecAB == InitAB /\ [][NextAB]_vars

\* ------------------------------------------------------------------------
\* _apply_penalty on its own
\* ------------------------------------------------------------------------

\* the pool with one caller that is in no call: what the specifications of the
\* functions taken on their own leave as it is
PoolAtRest ==
  /\ s = [enabled |-> TRUE, required |-> TRUE]
  /\ lock = None
  /\ last_switch_ts = 0
  /\ clock = 0
  /\ group_now = None
  /\ group_all = AnyList
  /\ pc = [t \in {"w1"} |-> "idle"]
  /\ fr = [t \in {"w1"} |-> Frame0]
  /\ failures = 0
  /\ host = Host0
  /\ reg = Reg0
  /\ via = Via0
  /\ svc = Svc0

\* the penalties a ledger entry holds before the call
PenaltyValues == {0, PENALTY_MAIL, PENALTY_PREFLIGHT}

\* the ledgers before the call: any set of nodes has entries
Ledgers == UNION {[D -> PenaltyValues] : D \in SUBSET Nodes}

\* the kind argument: the kinds of the table, and kinds outside it
PenaltyKinds == {"preflight", "risk", "proxy", "mail", "other", "timeout"}

Init_apply_penalty ==
  /\ PoolAtRest
  /\ dyn_penalty \in Ledgers
  /\ call = NoCall

\* self._apply_penalty(name, kind)
Do_apply_penalty ==
  /\ call = NoCall
  /\ \E name \in Nodes, kind \in PenaltyKinds :
       /\ dyn_penalty' = apply_penalty(dyn_penalty, name, kind)
       /\ call' = [fn |-> "_apply_penalty", name |-> name, kind |-> kind,
                   before |-> dyn_penalty]
  /\ UNCHANGED <<svc, via, reg, host, group_all, s, lock, last_switch_ts, clock, group_now, pc, fr,
                 failures>>

Spec_apply_penalty == Init_apply_penalty /\ [][Do_apply_penalty]_vars

\* ------------------------------------------------------------------------
\* The best pick (line 609) on its own
\* ------------------------------------------------------------------------

\* the nodes of the group: two of them have the same base score
PickNodes == {"A", "B", "S", "T"}

\* the candidates of an iteration: a list of distinct nodes, not empty
CandidateLists ==
  {c \in UNION {[1..k -> PickNodes] : k \in 1..Cardinality(PickNodes)} :
     \A i, j \in DOMAIN c : i # j => c[i] # c[j]}

\* the liveness flags of the candidates after the usable filter: none is
\* marked alive=false, or all are
UsableAliveMaps(candidates) ==
  [Range(candidates) -> {"True", None}] \cup {[n \in Range(candidates) |-> "False"]}

Init_best_pick ==
  /\ PoolAtRest
  /\ dyn_penalty \in [PickNodes -> {0, PENALTY_MAIL}]
  /\ call = NoCall

\* best = max(candidates, key=...)
Do_best_pick ==
  /\ call = NoCall
  /\ \E candidates \in CandidateLists :
       \E alive_map \in UsableAliveMaps(candidates) :
         call' = [fn |-> "max", candidates |-> candidates, alive_map |-> alive_map,
                  best |-> best_of(dyn_penalty, candidates, alive_map)]
  /\ UNCHANGED <<svc, via, reg, host, group_all, s, lock, dyn_penalty, last_switch_ts, clock,
                 group_now, pc, fr, failures>>

Spec_best_pick == Init_best_pick /\ [][Do_best_pick]_vars

\* ------------------------------------------------------------------------
\* _preflight on its own
\* ------------------------------------------------------------------------

\* the HTTP statuses a probe may see, on both sides of 200, 399 and 407
ProbeStatuses == {100, 199, 200, 204, 302, 399, 400, 404, 407, 500}

\* requests.get raised
Raised == [exc |-> TRUE, status |-> 0]

\* what a probe of one URL may observe
ProbeOutcomes == {Status(c) : c \in ProbeStatuses} \cup {Raised}

Init_preflight ==
  /\ PoolAtRest
  /\ dyn_penalty = EmptyMap
  /\ call = NoCall

\* self._preflight(), with results[i] what a probe of PREFLIGHT_URLS[i] observes
Do_preflight ==
  /\ call = NoCall
  /\ \E results \in [1..Len(PREFLIGHT_URLS) -> ProbeOutcomes] :
       LET p == preflight(results)
       IN call' = [fn |-> "_preflight", results |-> results,
                   ok |-> p[1], details |-> p[2]]
  /\ UNCHANGED <<svc, via, reg, host, group_all, s, lock, dyn_penalty, last_switch_ts, clock,
                 group_now, pc, fr, failures>>

Spec_preflight == Init_preflight /\ [][Do_preflight]_vars

\* ------------------------------------------------------------------------
\* classify_failure
\* ------------------------------------------------------------------------

\* "verification code timeout" and "otp_timeout", looked for in low
OTP_MARKERS ==
  <<
     <<118, 101, 114, 105, 102, 105, 99, 97, 116, 105, 111, 110, 32, 99, 111,
       100, 101, 32, 116, 105, 109, 101, 111, 117, 116>>,
     <<111, 116, 112, 95, 116, 105, 109, 101, 111, 117, 116>>
  >>

\* "验证码超时", looked for in raw
OTP_MARKER_RAW == <<39564, 35777, 30721, 36229, 26102>>

\* risk_markers, in list order: "signin-error", "let's try something else",
\* "we had trouble retrieving the email address",
\* "recaptcha challenge", "send code button not found", "code input not found",
\* "verification code submission failed", "url parameters not found", "cid not found"
RISK_MARKERS ==
  <<
     <<115, 105, 103, 110, 105, 110, 45, 101, 114, 114, 111, 114>>,
     <<108, 101, 116, 39, 115, 32, 116, 114, 121, 32, 115, 111, 109, 101,
       116, 104, 105, 110, 103, 32, 101, 108, 115, 101>>,
     <<119, 101, 32, 104, 97, 100, 32, 116, 114, 111, 117, 98, 108, 101, 32,
       114, 101, 116, 114, 105, 101, 118, 105, 110, 103, 32, 116, 104, 101,
       32, 101, 109, 97, 105, 108, 32, 97, 100, 100, 114, 101, 115, 115>>,
     <<114, 101, 99, 97, 112, 116, 99, 104, 97, 32, 99, 104, 97, 108, 108,
       101, 110, 103, 101>>,
     <<115, 101, 110, 100, 32, 99, 111, 100, 101, 32, 98, 117, 116, 116, 111,
       110, 32, 110, 111, 116, 32, 102, 111, 117, 110, 100>>,
     <<99, 111, 100, 101, 32, 105, 110, 112, 117, 116, 32, 110, 111, 116, 32,
       102, 111, 117, 110, 100>>,
     <<118, 101, 114, 105, 102, 105, 99, 97, 116, 105, 111, 110, 32, 99, 111,
       100, 101, 32, 115, 117, 98, 109, 105, 115, 115, 105, 111, 110, 32,
       102, 97, 105, 108, 101, 100>>,
     <<117, 114, 108, 32, 112, 97, 114, 97, 109, 101, 116, 101, 114, 115, 32,
       110, 111, 116, 32, 102, 111, 117, 110, 100>>,
     <<99, 105, 100, 32, 110, 111, 116, 32, 102, 111, 117, 110, 100>>
  >>

\* proxy_markers, in list order: "err_proxy_connection_failed",
\* "err_tunnel_connection_failed", "proxyerror",
\* "cannot connect to proxy", "connection refused", "connect timeout", "read timed out",
\* "timed out", "ssl", "net::err_"
PROXY_MARKERS ==
  <<
     <<101, 114, 114, 95, 112, 114, 111, 120, 121, 95, 99, 111, 110, 110,
       101, 99, 116, 105, 111, 110, 95, 102, 97, 105, 108, 101, 100>>,
     <<101, 114, 114, 95, 116, 117, 110, 110, 101, 108, 95, 99, 111, 110,
       110, 101, 99, 116, 105, 111, 110, 95, 102, 97, 105, 108, 101, 100>>,
     <<112, 114, 111, 120, 121, 101, 114, 114, 111, 114>>,
     <<99, 97, 110, 110, 111, 116, 32, 99, 111, 110, 110, 101, 99, 116, 32,
       116, 111, 32, 112, 114, 111, 120, 121>>,
     <<99, 111, 110, 110, 101, 99, 116, 105, 111, 110, 32, 114, 101, 102,
       117, 115, 101, 100>>,
     <<99, 111, 110, 110, 101, 99, 116, 32, 116, 105, 109, 101, 111, 117,
       116>>,
     <<114, 101, 97, 100, 32, 116, 105, 109, 101, 100, 32, 111, 117, 116>>,
     <<116, 105, 109, 101, 100, 32, 111, 117, 116>>,
     <<115, 115, 108>>,
     <<110, 101, 116, 58, 58, 101, 114, 114, 95>>
  >>

\* the details "empty", "otp_timeout" and "unknown"
DETAIL_EMPTY == <<101, 109, 112, 116, 121>>

DETAIL_OTP_TIMEOUT == <<111, 116, 112, 95, 116, 105, 109, 101, 111, 117, 116>>

\* "page crashed": a text with no marker in it
NO_MARKER_TEXT == <<112, 97, 103, 101, 32, 99, 114, 97, 115, 104, 101, 100>>

\* ": ", between the two parts of an error text
PART_SEP == <<58, 32>>

\* for m in markers: if m in low, from position i on: the position of the first
\* marker found, 0 when there is none
RECURSIVE first_marker(_, _, _)
first_marker(markers, low, i) ==
  IF i > Len(markers) THEN 0
  ELSE IF Contains(low, markers[i]) THEN i
  ELSE first_marker(markers, low, i + 1)

\* lines 111-151, with raw and low of lines 108-109
classify(raw, low) ==
  IF raw = <<>> THEN <<"other", DETAIL_EMPTY>>
  ELSE IF \/ Contains(low, OTP_MARKERS[1])
          \/ Contains(raw, OTP_MARKER_RAW)
          \/ Contains(low, OTP_MARKERS[2])
  THEN <<"mail", DETAIL_OTP_TIMEOUT>>
  ELSE LET r == first_marker(RISK_MARKERS, low, 1)
       IN IF r # 0 THEN <<"risk", RISK_MARKERS[r]>>
          ELSE LET q == first_marker(PROXY_MARKERS, low, 1)
               IN IF q # 0 THEN <<"proxy", PROXY_MARKERS[q]>>
                  ELSE <<"other", UNKNOWN>>

\* mutant of classify_failure: the markers are looked for in raw
classify_failure_CaseSensitive(error) ==
  LET raw == Strip(error) IN classify(raw, raw)

\* classify_failure(error) -> (kind, detail)
classify_failure(error) ==
  LET raw == Strip(error) IN classify(raw, Lower(raw))

\* the parts of an error text: nothing, a text with no marker, every marker
ErrorParts ==
  {<<>>, NO_MARKER_TEXT, OTP_MARKER_RAW}
    \cup Range(OTP_MARKERS) \cup Range(RISK_MARKERS) \cup Range(PROXY_MARKERS)

\* the first part of an error text: nothing, no marker, an OTP marker of each
\* sort, the last risk marker, "timed out" and the last proxy marker
FirstParts ==
  {<<>>, NO_MARKER_TEXT, OTP_MARKER_RAW, OTP_MARKERS[2],
   RISK_MARKERS[Len(RISK_MARKERS)], PROXY_MARKERS[Len(PROXY_MARKERS) - 2],
   PROXY_MARKERS[Len(PROXY_MARKERS)]}

\* the empty text and texts of white space
BlankErrors == {<<>>, <<32>>, <<32, 9, 10>>}

\* the error texts in lower case: blank, or " first: second\n"
ErrorTexts ==
  BlankErrors
    \cup {<<32>> \o p1 \o PART_SEP \o p2 \o <<10>> :
           p1 \in FirstParts, p2 \in ErrorParts}

\* the letter case of an error text: as it is, all capitals, or every other
\* character a capital
CaseModes == {"lower", "upper", "mixed"}

UpperChar(c) == IF c >= 97 /\ c <= 122 THEN c - 32 ELSE c

Cased(str, mode) ==
  [i \in 1..Len(str) |->
     IF mode = "upper" \/ (mode = "mixed" /\ i % 2 = 1)
     THEN UpperChar(str[i]) ELSE str[i]]

Init_classify_failure ==
  /\ PoolAtRest
  /\ dyn_penalty = EmptyMap
  /\ call = NoCall

\* classify_failure(error)
Do_classify_failure ==
  /\ call = NoCall
  /\ \E text \in ErrorTexts, mode \in CaseModes :
       LET error == Cased(text, mode)
       IN call' = [fn |-> "classify_failure", error |-> error,
                   result |-> classify_failure(error)]
  /\ UNCHANGED <<svc, via, reg, host, group_all, s, lock, dyn_penalty, last_switch_ts, clock,
                 group_now, pc, fr, failures>>

Spec_classify_failure == Init_classify_failure /\ [][Do_classify_failure]_vars

\* ------------------------------------------------------------------------
\* fetch_provider: the merge of the fetched entries (lines 373-394)
\* ------------------------------------------------------------------------

\* "__dup"
DUP_MARK == <<95, 95, 100, 117, 112>>

\* str(n) for n >= 0
RECURSIVE Decimal(_)
Decimal(n) ==
  IF n < 10 THEN <<48 + n>> ELSE Decimal(n \div 10) \o <<48 + (n % 10)>>

\* str.rstrip()
RECURSIVE RStrip(_)
RStrip(str) ==
  IF str = <<>> THEN <<>>
  ELSE IF str[Len(str)] \in Whitespace THEN RStrip(SubSeq(str, 1, Len(str) - 1))
  ELSE str

\* An entry p of merged is [name, cfg]: cfg is p without its name, and fp, the
\* JSON text of cfg with sorted keys, is the same for two entries iff cfg is.
\* mutant of fingerprint: the name is part of the fingerprint
fingerprint_WithName(p) == p

fingerprint(p) == p.cfg

\* mutant of is_duplicate: no entry is dropped for its fingerprint
is_duplicate_Never(fp, seen_fp) == FALSE

\* if fp in seen_fp, line 384
is_duplicate(fp, seen_fp) == fp \in seen_fp

\* for p in merged, from position i on: out afterwards
RECURSIVE merge_from(_, _, _, _, _)
merge_from(merged, i, seen_fp, name_seen, out) ==
  IF i > Len(merged) THEN out
  ELSE LET p == merged[i]
           name == RStrip(p.name)
           fp == fingerprint(p)
       IN IF name = <<>>
          THEN merge_from(merged, i + 1, seen_fp, name_seen, out)
          ELSE IF is_duplicate(fp, seen_fp)
          THEN merge_from(merged, i + 1, seen_fp, name_seen, out)
          ELSE IF name \in DOMAIN name_seen
          THEN LET k == name_seen[name] + 1
               IN merge_from(merged, i + 1, seen_fp \cup {fp},
                             Put(name_seen, name, k),
                             Append(out, [name |-> name \o DUP_MARK \o Decimal(k),
                                          cfg |-> p.cfg]))
          ELSE merge_from(merged, i + 1, seen_fp \cup {fp},
                          Put(name_seen, name, 0),
                          Append(out, [name |-> name, cfg |-> p.cfg]))

\* lines 373-394: the list written to the provider file
merge(merged) == merge_from(merged, 1, {}, EmptyMap, <<>>)

\* the names of fetched entries: "X", "X " , "X__dup1" and no name
FetchedNames == {<<88>>, <<88, 32>>, <<88>> \o DUP_MARK \o <<49>>, <<>>}

\* the configurations of fetched entries
FetchedConfigs == {"c1", "c2", "c3"}

FetchedEntries == [name : FetchedNames, cfg : FetchedConfigs]

\* merged is not empty (line 370)
MergedLists == UNION {[1..k -> FetchedEntries] : k \in 1..MaxMerged}

Init_merge ==
  /\ PoolAtRest
  /\ dyn_penalty = EmptyMap
  /\ call = NoCall

\* the merge of fetch_provider
Do_merge ==
  /\ call = NoCall
  /\ \E merged \in MergedLists :
       call' = [fn |-> "merge", merged |-> merged, out |-> merge(merged)]
  /\ UNCHANGED <<svc, via, reg, host, group_all, s, lock, dyn_penalty, last_switch_ts, clock,
                 group_now, pc, fr, failures>>

Spec_merge == Init_merge /\ [][Do_merge]_vars

\* ------------------------------------------------------------------------
\* fetch_provider (lines 328-405)
\*   provider: the provider file, [exists, proxies]
\*   age:      time.time() - st_mtime of the file, in seconds
\*   fetched:  what the fetch of the sources gives: [ok, merged], ok FALSE when
\*             _run_cgpool_fetch or the reading of its output raises
\* The result is [outcome, fetch, provider]: return or raise, whether the
\* sources were fetched, and the provider file afterwards.
\* ------------------------------------------------------------------------

\* mutant of cache_hit: a file of any age is fresh
cache_hit_AnyAge(provider, age) == provider.exists

\* lines 335-339: the cached provider is fresh
cache_hit(provider, age) ==
  provider.exists /\ age >= 0 /\ age < PROVIDER_REFRESH_MIN_SECONDS

fetch_provider(provider, age, fetched) ==
  IF cache_hit(provider, age)
  THEN [outcome |-> "return", fetch |-> FALSE, provider |-> provider]
  ELSE IF ~fetched.ok
  THEN \* except Exception, lines 363-368
       [outcome |-> IF provider.exists THEN "return" ELSE "raise",
        fetch |-> TRUE, provider |-> provider]
  ELSE IF fetched.merged = <<>>
  THEN \* lines 370-371
       [outcome |-> "raise", fetch |-> TRUE, provider |-> provider]
  ELSE \* lines 373-404
       [outcome |-> "return", fetch |-> TRUE,
        provider |-> [exists |-> TRUE, proxies |-> merge(fetched.merged)]]

\* the provider file before the call: none, or one written earlier
ProviderFiles ==
  {NoFile,
   [exists |-> TRUE, proxies |-> <<[name |-> <<88>>, cfg |-> "c1"]>>],
   [exists |-> TRUE, proxies |-> <<[name |-> <<88>>, cfg |-> "c2"]>>]}

\* the age of the file: a modification time in the future, a new file, and the
\* ages around the refresh interval
ProviderAges ==
  {-1, 0, PROVIDER_REFRESH_MIN_SECONDS - 1, PROVIDER_REFRESH_MIN_SECONDS,
   PROVIDER_REFRESH_MIN_SECONDS + 1}

\* the fetch raises, or gives the entries of the sources, which may be none
FetchResults ==
  {[ok |-> FALSE, merged |-> <<>>], [ok |-> TRUE, merged |-> <<>>]}
  \cup {[ok |-> TRUE, merged |-> m] : m \in MergedLists}

Init_fetch_provider ==
  /\ PoolAtRest
  /\ dyn_penalty = EmptyMap
  /\ call = NoCall

\* self.fetch_provider()
Do_fetch_provider ==
  /\ call = NoCall
  /\ \E provider \in ProviderFiles, age \in ProviderAges, fetched \in FetchResults :
       call' = [fn |-> "fetch_provider", provider |-> provider, age |-> age,
                fetched |-> fetched,
                result |-> fetch_provider(provider, age, fetched)]
  /\ UNCHANGED <<svc, via, reg, host, group_all, s, lock, dyn_penalty, last_switch_ts, clock,
                 group_now, pc, fr, failures>>

Spec_fetch_provider == Init_fetch_provider /\ [][Do_fetch_provider]_vars

\* ------------------------------------------------------------------------
\* ensure_started in detail: fetch_provider, then start_mihomo, under the lock
\* (lines 407-474).  The engines that start_mihomo spawns have the process
\* ids 1, 2, ...; call holds how the last ensure_started ended.
\* ------------------------------------------------------------------------

\* the id of a process that this pool did not start, which a pid file left
\* from an earlier run names
OtherPid == MaxSpawns + 1

\* the engines that this pool started
PoolEngines == 1..MaxSpawns

\* mutant of is_mihomo_running: the pid file is not looked at
is_mihomo_running_Never(h) == FALSE

\* _is_mihomo_running(), lines 287-293: the pid file is read and names a
\* process that os.kill(pid, 0) finds
is_mihomo_running(h) == h.pid # 0 /\ h.pid \in h.live

\* what fetch_provider sees in the start of the pool
StartAges == {0, PROVIDER_REFRESH_MIN_SECONDS}

StartFetchResults ==
  {[ok |-> FALSE, merged |-> <<>>], [ok |-> TRUE, merged |-> <<>>],
   [ok |-> TRUE, merged |-> <<[name |-> <<88>>, cfg |-> "c1"]>>]}

\* the hosts at the start: a provider file or none; no pid file, or the pid
\* file of an earlier run, whose process is gone, lives, or lives and answers
\* on the controller port
StartHosts ==
  {[provider |-> f, pid |-> p[1], live |-> p[2], ready |-> p[3], spawned |-> 0] :
     f \in {NoFile, [exists |-> TRUE, proxies |-> <<[name |-> <<88>>, cfg |-> "c2"]>>]},
     p \in {<<0, {}, {}>>, <<OtherPid, {}, {}>>, <<OtherPid, {OtherPid}, {}>>,
            <<OtherPid, {OtherPid}, {OtherPid}>>}}

InitStart ==
  /\ s \in [enabled : BOOLEAN, required : BOOLEAN]
  /\ lock = None
  /\ dyn_penalty = EmptyMap
  /\ last_switch_ts = 0
  /\ clock = 0
  /\ group_now = None
  /\ group_all = AnyList
  /\ pc = [t \in Threads |-> "idle"]
  /\ fr = [t \in Threads |-> Frame0]
  /\ failures = 0
  /\ call = NoCall
  /\ host \in StartHosts
  /\ reg = Reg0
  /\ via = Via0
  /\ svc = Svc0

\* one caller, and a group whose members stay
InitStartOne ==
  /\ s \in [enabled : BOOLEAN, required : BOOLEAN]
  /\ lock = None
  /\ dyn_penalty = EmptyMap
  /\ last_switch_ts = 0
  /\ clock = 0
  /\ group_now \in {None, "A"}
  /\ group_all = <<"DIRECT", "A", "S", "REJECT">>
  /\ pc = [t \in {"w1"} |-> "idle"]
  /\ fr = [t \in {"w1"} |-> Frame0]
  /\ failures = 0
  /\ call = NoCall
  /\ host \in StartHosts
  /\ reg = Reg0
  /\ via = Via0
  /\ svc = Svc0

\* ensure_started(), lines 463-467, to fetch_provider
Call_ensure_started(t) ==
  /\ pc[t] = "idle"
  /\ IF ~s.enabled
     THEN UNCHANGED <<lock, pc, fr>>
     ELSE /\ can_acquire(lock)
          /\ lock' = t
          /\ pc' = [pc EXCEPT ![t] = "es_fetch"]
          /\ fr' = [fr EXCEPT ![t] = [Frame0 EXCEPT !.op = "es"]]
  /\ UNCHANGED <<svc, via, reg, host, call, group_all, s, dyn_penalty, last_switch_ts, clock, group_now, failures>>

\* ensure_proxy_reachable(), lines 569-573, to fetch_provider
Call_ensure_proxy_reachable_start(t) ==
  /\ pc[t] = "idle"
  /\ IF ~s.enabled
     THEN UNCHANGED <<lock, pc, fr>>
     ELSE /\ can_acquire(lock)
          /\ lock' = t
          /\ pc' = [pc EXCEPT ![t] = "es_fetch"]
          /\ fr' = [fr EXCEPT ![t] = [Frame0 EXCEPT !.op = "epr"]]
  /\ UNCHANGED <<svc, via, reg, host, call, group_all, s, dyn_penalty, last_switch_ts, clock, group_now, failures>>

\* ensure_started() ends at the given step, lines 468-474: an exception of
\* fetch_provider or start_mihomo is raised again iff the pool is required;
\* else the caller goes on (ensure_proxy_reachable to its own with self._lock)
es_end(t, step, failed) ==
  /\ call' = [fn |-> "ensure_started", by |-> t, op |-> fr[t].op, step |-> step,
              failed |-> failed,
              outcome |-> IF failed /\ s.required THEN "raise" ELSE "return"]
  /\ lock' = None
  /\ IF (failed /\ s.required) \/ fr[t].op = "es"
     THEN Leave(t)
     ELSE /\ pc' = [pc EXCEPT ![t] = "epr_lock"]
          /\ fr' = fr

\* self.fetch_provider(), line 469
es_fetch(t) ==
  /\ pc[t] = "es_fetch"
  /\ \E age \in StartAges, fetched \in StartFetchResults :
       LET r == fetch_provider(host.provider, age, fetched)
       IN /\ host' = [host EXCEPT !.provider = r.provider]
          /\ IF r.outcome = "raise"
             THEN es_end(t, "fetch_provider", TRUE)
             ELSE /\ pc' = [pc EXCEPT ![t] = "es_start"]
                  /\ UNCHANGED <<lock, fr, call>>
  /\ UNCHANGED <<svc, via, reg, group_all, s, dyn_penalty, last_switch_ts, clock, group_now, failures>>

\* start_mihomo(), lines 409-412: nothing to do when the engine runs
es_start(t) ==
  /\ pc[t] = "es_start"
  /\ IF is_mihomo_running(host)
     THEN es_end(t, "running", FALSE)
     ELSE /\ pc' = [pc EXCEPT ![t] = "es_spawn"]
          /\ UNCHANGED <<lock, fr, call>>
  /\ UNCHANGED <<svc, via, reg, host, group_all, s, dyn_penalty, last_switch_ts, clock, group_now, failures>>

\* start_mihomo(), lines 414-439: the binary is missing and cannot be
\* installed, or the configuration cannot be written (an exception, no
\* process); or Popen starts the engine and its pid is written
es_spawn(t) ==
  /\ pc[t] = "es_spawn"
  /\ \/ /\ es_end(t, "install", TRUE)
        /\ UNCHANGED host
     \/ /\ host.spawned < MaxSpawns
        /\ LET p == host.spawned + 1
           IN host' = [host EXCEPT !.spawned = p, !.pid = p, !.live = @ \cup {p}]
        /\ pc' = [pc EXCEPT ![t] = "es_wait"]
        /\ UNCHANGED <<lock, fr, call>>
  /\ UNCHANGED <<svc, via, reg, group_all, s, dyn_penalty, last_switch_ts, clock, group_now, failures>>

\* start_mihomo(), lines 440-461: the engine exited early (an exception); or
\* the controller answers within the 60 polls, or it does not, and
\* start_mihomo returns in both cases
es_wait(t) ==
  /\ pc[t] = "es_wait"
  /\ IF host.pid \notin host.live
     THEN /\ es_end(t, "exited", TRUE)
          /\ UNCHANGED host
     ELSE \E ready \in BOOLEAN :
            /\ host' = [host EXCEPT !.ready = IF ready THEN @ \cup {host.pid} ELSE @]
            /\ es_end(t, IF ready THEN "ready" ELSE "not_ready", FALSE)
  /\ UNCHANGED <<svc, via, reg, group_all, s, dyn_penalty, last_switch_ts, clock, group_now, failures>>

\* a process of the host exits
EngineExits ==
  /\ \E p \in host.live :
       host' = [host EXCEPT !.live = @ \ {p}, !.ready = @ \ {p}]
  /\ UNCHANGED <<svc, via, reg, call, group_all, s, lock, dyn_penalty, last_switch_ts, clock, group_now, pc, fr, failures>>

\* the head of the loop on this host: _get_proxies() (lines 476-483) raises
\* when no process answers on the controller port
epr_head_host(t) ==
  IF host.ready = {}
  THEN /\ pc[t] = "epr_head"
       /\ LeaveUnlock(t)
       /\ UNCHANGED <<svc, via, reg, host, call, group_all, s, dyn_penalty, last_switch_ts, clock, group_now, failures>>
  ELSE epr_head(t)

StepStart(t) ==
  \/ Call_ensure_started(t)
  \/ es_fetch(t)
  \/ es_start(t)
  \/ es_spawn(t)
  \/ es_wait(t)

NextStart == EngineExits \/ \E t \in Threads : StepStart(t)

\* concurrent callers of ensure_started
SpecStart == InitStart /\ [][NextStart]_vars

NextStartOne ==
  \/ EngineExits
  \/ StepStart("w1")
  \/ Call_ensure_proxy_reachable_start("w1")
  \/ epr_acquire("w1")
  \/ epr_refresh("w1")
  \/ epr_head_host("w1")
  \/ epr_sticky_preflight("w1")
  \/ epr_sticky_done("w1")
  \/ epr_pick("w1")
  \/ epr_switch("w1")
  \/ epr_preflight("w1")
  \/ epr_preflight_done("w1")

\* one caller of ensure_started and ensure_proxy_reachable
SpecStartOne == InitStartOne /\ [][NextStartOne]_vars

\* ------------------------------------------------------------------------
\* _parse_name and _base_score on their own
\* ------------------------------------------------------------------------

\* the pieces a name is made of: "a", "", " 商宽 ", "低风险 (x)", "(x)",
\* "SpeedNode" and the marker of garbage names; no piece holds the delimiter
NamePieces ==
  {<<97>>, <<>>, <<32, 21830, 23485, 32>>,
   <<20302, 39118, 38505, 32, 40, 120, 41>>, <<40, 120, 41>>,
   <<83, 112, 101, 101, 100, 78, 111, 100, 101>>, GARBAGE_MARK}

\* "｜".join(parts)
RECURSIVE JoinParts(_)
JoinParts(parts) ==
  IF Len(parts) = 1 THEN parts[1]
  ELSE parts[1] \o DELIM \o JoinParts(Tail(parts))

\* the names: 1 to MaxParts pieces between delimiters
NamePartLists == UNION {[1..k -> NamePieces] : k \in 1..MaxParts}

Init_parse_name ==
  /\ PoolAtRest
  /\ dyn_penalty = EmptyMap
  /\ call = NoCall

\* self._base_score(name), which calls self._parse_name(name)
Do_parse_name ==
  /\ call = NoCall
  /\ \E parts \in NamePartLists :
       LET name == JoinParts(parts)
       IN call' = [fn |-> "_base_score", parts |-> parts, name |-> name,
                   parsed |-> parse_name(name), base |-> base_score(name)]
  /\ UNCHANGED <<svc, via, reg, host, group_all, s, lock, dyn_penalty, last_switch_ts, clock,
                 group_now, pc, fr, failures>>

Spec_parse_name == Init_parse_name /\ [][Do_parse_name]_vars

\* ------------------------------------------------------------------------
\* RegisterService._register_one (src/core/register_service.py, lines
\* 109-186) with the calls of the pool taken by their outcome: a pool call
\* returns or raises
\* ------------------------------------------------------------------------

\* "automation failed"
AUTOMATION_FAILED ==
  <<97, 117, 116, 111, 109, 97, 116, 105, 111, 110, 32, 102, 97, 105, 108, 101, 100>>

\* the results of _register_one that are errors of the pool
POOL_UNAVAILABLE == "proxy pool unavailable"

POOL_EXHAUSTED == "proxy pool exhausted"

\* pool = self.proxy_pool if (self.proxy_pool and self.proxy_pool.s.enabled)
\* else None, line 112
has_pool == s.enabled

InitRegister ==
  /\ s \in [enabled : BOOLEAN, required : {TRUE}]
  /\ lock = None
  /\ dyn_penalty = EmptyMap
  /\ last_switch_ts = 0
  /\ clock = 0
  /\ group_now = None
  /\ group_all = AnyList
  /\ pc = [t \in {"w1"} |-> "idle"]
  /\ fr = [t \in {"w1"} |-> Frame0]
  /\ failures = 0
  /\ call = NoCall
  /\ host = Host0
  /\ reg = [Reg0 EXCEPT !.at = "start"]
  /\ via = Via0
  /\ svc = Svc0

\* _register_one returns the given result
reg_return(result) == reg' = [reg EXCEPT !.at = "returned", !.result = result]

\* pool.ensure_proxy_reachable() inside try, at the position at: the next
\* position, or the return of "proxy pool unavailable" when the call raises
reg_reachable(at, to) ==
  /\ reg.at = at
  /\ IF ~has_pool
     THEN reg' = [reg EXCEPT !.at = to]
     ELSE \E raised \in BOOLEAN :
            IF raised THEN reg_return(POOL_UNAVAILABLE)
            ELSE reg' = [reg EXCEPT !.at = to]
  /\ UNCHANGED <<svc, via, host, call, group_all, s, lock, dyn_penalty, last_switch_ts, clock, group_now, pc, fr, failures>>

\* lines 115-119
reg_first_reachable == reg_reachable("start", "duckmail")

\* lines 121-133: the mail account
reg_duckmail ==
  /\ reg.at = "duckmail"
  /\ \E ok \in BOOLEAN :
       IF ok THEN reg' = [reg EXCEPT !.at = "loop"]
       ELSE reg_return("duckmail register failed")
  /\ UNCHANGED <<svc, via, host, call, group_all, s, lock, dyn_penalty, last_switch_ts, clock, group_now, pc, fr, failures>>

\* lines 136-143, the head of while True
reg_loop_reachable == reg_reachable("loop", "automation")

\* mutant of reg_automation: a failed attempt goes to the next iteration
reg_automation_NoOnFailure ==
  /\ reg.at = "automation"
  /\ \/ reg_return("success")
     \/ \E error \in ErrorTexts :
          LET err == IF error = <<>> THEN AUTOMATION_FAILED ELSE error
          IN IF ~has_pool THEN reg_return("error of the automation")
             ELSE reg' = [reg EXCEPT !.at = "loop", !.err = err]
  /\ UNCHANGED <<svc, via, host, call, group_all, s, lock, dyn_penalty, last_switch_ts, clock, group_now, pc, fr, failures>>

\* lines 145-182: the browser automation succeeds (break, and the account is
\* saved after the loop), or fails with an error text, which is the result
\* without a pool and is classified with a pool
reg_automation ==
  /\ reg.at = "automation"
  /\ \/ reg_return("success")
     \/ \E error \in ErrorTexts :
          LET err == IF error = <<>> THEN AUTOMATION_FAILED ELSE error
              c == classify_failure(err)
          IN IF ~has_pool THEN reg_return("error of the automation")
             ELSE reg' = [reg EXCEPT !.at = "on_failure", !.err = err,
                                     !.kind = c[1], !.detail = c[2]]
  /\ UNCHANGED <<svc, via, host, call, group_all, s, lock, dyn_penalty, last_switch_ts, clock, group_now, pc, fr, failures>>

\* lines 183-186: pool.on_failure(kind=kind, detail=detail) inside try
reg_on_failure ==
  /\ reg.at = "on_failure"
  /\ \E raised \in BOOLEAN :
       IF raised THEN reg_return(POOL_EXHAUSTED)
       ELSE reg' = [reg EXCEPT !.at = "loop"]
  /\ UNCHANGED <<svc, via, host, call, group_all, s, lock, dyn_penalty, last_switch_ts, clock, group_now, pc, fr, failures>>

NextRegister ==
  \/ reg_first_reachable
  \/ reg_duckmail
  \/ reg_loop_reachable
  \/ reg_automation
  \/ reg_on_failure

SpecRegister == InitRegister /\ [][NextRegister]_vars

\* ------------------------------------------------------------------------
\* Two workers of the register loop on one pool (register_service.py, lines
\* 136-186): each worker calls ensure_proxy_reachable, runs its attempt
\* through the engine's port, and on a failed attempt calls on_failure
\* ------------------------------------------------------------------------

InitWorkers ==
  /\ s = [enabled |-> TRUE, required |-> TRUE]
  /\ lock = None
  /\ dyn_penalty = EmptyMap
  /\ last_switch_ts = 0
  /\ clock = 0
  /\ group_now \in Nodes \cup {None}
  /\ group_all = AnyList
  /\ pc = [t \in Threads |-> "idle"]
  /\ fr = [t \in Threads |-> Frame0]
  /\ failures = 0
  /\ call = NoCall
  /\ host = Host0
  /\ reg = Reg0
  /\ via = Via0
  /\ svc = Svc0

\* pool.ensure_proxy_reachable() of the register loop, lines 115 and 139, by
\* a worker that is in no attempt, to the lock of ensure_started
w_reach(t) ==
  /\ pc[t] = "idle"
  /\ via[t].at # "attempt"
  /\ can_acquire(lock)
  /\ lock' = t
  /\ pc' = [pc EXCEPT ![t] = "es_body"]
  /\ fr' = [fr EXCEPT ![t] = [Frame0 EXCEPT !.op = "epr"]]
  /\ via' = [via EXCEPT ![t] = NoAttempt]
  /\ UNCHANGED <<svc, reg, host, call, group_all, s, dyn_penalty, last_switch_ts, clock, group_now, failures>>

\* the attempt succeeded: break, line 175
w_done(t) ==
  /\ pc[t] = "idle"
  /\ via[t].at = "attempt"
  /\ via' = [via EXCEPT ![t] = NoAttempt]
  /\ UNCHANGED <<svc, reg, host, call, group_all, s, lock, dyn_penalty, last_switch_ts, clock, group_now, pc, fr, failures>>

\* the attempt failed: pool.on_failure(kind, detail), lines 177-185, to the
\* lock of ensure_started
w_on_failure(t) ==
  /\ pc[t] = "idle"
  /\ via[t].at = "attempt"
  /\ failures < MaxFailures
  /\ failures' = failures + 1
  /\ can_acquire(lock)
  /\ lock' = t
  /\ pc' = [pc EXCEPT ![t] = "es_body"]
  /\ fr' = [fr EXCEPT ![t] = [Frame0 EXCEPT !.op = "of_pre"]]
  /\ via' = [via EXCEPT ![t] = [@ EXCEPT !.at = "failed"]]
  /\ UNCHANGED <<svc, reg, host, call, group_all, s, dyn_penalty, last_switch_ts, clock, group_now>>

w_sticky_done(t) ==
  epr_sticky_done_rec(t, TRUE)

w_preflight_done(t) ==
  epr_preflight_done_rec(t, TRUE)

WorkerStep(t) ==
  \/ w_reach(t)
  \/ w_done(t)
  \/ w_on_failure(t)
  \/ es_acquire(t)
  \/ es_body(t)
  \/ epr_acquire(t)
  \/ epr_refresh(t)
  \/ epr_head(t)
  \/ epr_sticky_preflight(t)
  \/ w_sticky_done(t)
  \/ epr_pick(t)
  \/ epr_switch(t)
  \/ epr_preflight(t)
  \/ w_preflight_done(t)
  \/ of_acquire(t)
  \/ of_get(t)

NextWorkers == \E t \in Threads : WorkerStep(t)

SpecWorkers == InitWorkers /\ [][NextWorkers]_vars

\* ------------------------------------------------------------------------
\* One caller on a group with a tagged node, a node of kind other and a node
\* of kind garbage
\* ------------------------------------------------------------------------

LowLists == {<<"O">>, <<"G", "O">>, <<"DIRECT", "O", "A", "G", "REJECT">>}

InitLow ==
  /\ s \in [enabled : BOOLEAN, required : {TRUE}]
  /\ lock = None
  /\ dyn_penalty = EmptyMap
  /\ last_switch_ts = 0
  /\ clock = 0
  /\ group_now \in {None, "A", "O", "G"}
  /\ group_all \in LowLists
  /\ pc = [t \in {"w1"} |-> "idle"]
  /\ fr = [t \in {"w1"} |-> Frame0]
  /\ failures = 0
  /\ call = NoCall
  /\ host = Host0
  /\ reg = Reg0
  /\ via = Via0
  /\ svc = Svc0

epr_head_Low(t) == epr_head_on(t, {"A", "O", "G"})

NextLow ==
  \/ Call_ensure_proxy_reachable("w1")
  \/ es_body("w1")
  \/ epr_acquire("w1")
  \/ epr_refresh("w1")
  \/ epr_head_Low("w1")
  \/ epr_sticky_preflight("w1")
  \/ epr_sticky_done("w1")
  \/ epr_pick("w1")
  \/ epr_switch("w1")
  \/ epr_preflight("w1")
  \/ epr_preflight_done("w1")

SpecLow == InitLow /\ [][NextLow]_vars

\* ------------------------------------------------------------------------
\* One caller of the three entry points of the pool: ensure_started,
\* ensure_proxy_reachable and on_failure, on a pool that is enabled or not
\* ------------------------------------------------------------------------

NextEntry ==
  \/ EngineExits
  \/ Step("w1")
  \/ StepStart("w1")

SpecEntry == InitOne /\ [][NextEntry]_vars

\* ------------------------------------------------------------------------
\* RegisterService on the asyncio event loop (register_service.py, lines
\* 60-107): start_register runs without suspension, a created task starts at
\* a later turn of the loop, and every run_in_executor is a point where other
\* coroutines run
\* ------------------------------------------------------------------------

\* the status of a task between its creation (line 75) and the first step of
\* _run_register_async: the default of BaseTask.status, which line 85
\* replaces by RUNNING
PENDING == "pending"

\* the count argument of start_register; 0 stands for None as well (count or
\* default)
CountInputs == {0 - 1, 0, 2, 31}

\* config.basic.register_default_count
RegisterDefaults == {0, 2, 100}

Max(a, b) == IF a >= b THEN a ELSE b
Min(a, b) == IF a <= b THEN a ELSE b

\* lines 73-74: max(1, min(30, int(count or default)))
register_count(count, default) ==
  LET c == IF count # 0 THEN count ELSE default
  IN Max(1, Min(30, c))

\* self.get_current_task() and lines 65-66: the task under the current id
current_task == IF svc.current = None THEN Task0 ELSE svc.tasks[svc.current]

\* start_register(count), lines 62-81, with ids the ids uuid4 can give: the
\* services afterwards.  It raises ValueError and changes nothing when
\* ACCOUNTS_CONFIG is set or the current task is RUNNING, else it creates the
\* task and makes it current
start_register(ids, count, default) ==
  IF svc.accounts_config \/ current_task.status = "running"
  THEN {svc}
  ELSE {[svc EXCEPT
           !.tasks[id] = [status |-> PENDING,
                          count |-> register_count(count, default),
                          progress |-> 0, fail_count |-> 0],
           !.current = id] : id \in {i \in ids : svc.tasks[i].status = "absent"}}

\* a caller other than maintain_once (the admin API) calls start_register;
\* the event loop runs one coroutine at a time, and maintain_once has no
\* await that suspends it
Call_start_register(ids, counts) ==
  /\ svc.m.at = "idle"
  /\ \E count \in counts, default \in RegisterDefaults :
       svc' \in start_register(ids, count, default)
  /\ UNCHANGED <<via, reg, host, call, group_all, s, lock, dyn_penalty, last_switch_ts, clock,
                 group_now, pc, fr, failures>>

\* _run_register_async, lines 85-91: the task created by asyncio.create_task
\* gets its first turn
task_begin(ids) ==
  /\ svc.m.at = "idle"
  /\ \E id \in ids :
       /\ svc.tasks[id].status = PENDING
       /\ svc' = [svc EXCEPT !.tasks[id].status = "running"]
  /\ UNCHANGED <<via, reg, host, call, group_all, s, lock, dyn_penalty, last_switch_ts, clock,
                 group_now, pc, fr, failures>>

\* lines 91-107: one _register_one comes back from the executor; after the
\* last one the task ends and the current task id is cleared
task_iter(ids) ==
  /\ svc.m.at = "idle"
  /\ \E id \in ids, success \in BOOLEAN :
       LET task == svc.tasks[id]
           fails == task.fail_count + (IF success THEN 0 ELSE 1)
           last == task.progress + 1 = task.count
       IN /\ task.status = "running"
          /\ svc' = [svc EXCEPT
                       !.tasks[id] =
                          [status |-> IF ~last THEN "running"
                                      ELSE IF fails = 0 THEN "success"
                                      ELSE "failed",
                           count |-> task.count,
                           progress |-> task.progress + 1,
                           fail_count |-> fails],
                       !.current = IF last THEN None ELSE @]
  /\ UNCHANGED <<via, reg, host, call, group_all, s, lock, dyn_penalty, last_switch_ts, clock,
                 group_now, pc, fr, failures>>

\* the ids of the specification of the register tasks
TwoTasks == {"t1", "t2"}

InitTasks ==
  /\ s = [enabled |-> TRUE, required |-> TRUE]
  /\ lock = None
  /\ dyn_penalty = EmptyMap
  /\ last_switch_ts = 0
  /\ clock = 0
  /\ group_now = None
  /\ group_all = AnyList
  /\ pc = [t \in {"w1"} |-> "idle"]
  /\ fr = [t \in {"w1"} |-> Frame0]
  /\ failures = 0
  /\ call = NoCall
  /\ host = Host0
  /\ reg = Reg0
  /\ via = Via0
  /\ svc \in {[Svc0 EXCEPT !.accounts_config = e] : e \in BOOLEAN}

NextTasks ==
  \/ Call_start_register(TwoTasks, CountInputs)
  \/ task_begin(TwoTasks)
  \/ task_iter(TwoTasks)

SpecTasks == InitTasks /\ [][NextTasks]_vars

\* ------------------------------------------------------------------------
\* PoolService.maintain_once (pool_service.py, lines 170-326) next to the
\* register tasks on the same event loop
\* ------------------------------------------------------------------------

\* config.basic.pool_target_accounts
Targets == {0, 1, 2}

\* an account as maintain_once sees it: _required_fields_ok, the disabled
\* flag, expires_at <= now, and its id being in the runtime-disabled set
AccountKinds ==
  [required_ok : BOOLEAN, disabled : BOOLEAN, expired : BOOLEAN,
   runtime_perma_disabled : BOOLEAN]

\* load_accounts_from_source(): no account, one account, or two of a kind
AccountLists ==
  {<<>>} \cup {<<a>> : a \in AccountKinds} \cup {<<a, a>> : a \in AccountKinds}

\* lines 231-254: should_delete
should_delete(acc, prune_disabled) ==
  \/ ~acc.required_ok
  \/ prune_disabled /\ acc.disabled
  \/ acc.expired
  \/ acc.runtime_perma_disabled /\ ~acc.expired

\* lines 258-267: the account is kept and counted as healthy
is_healthy(acc, prune_disabled) ==
  /\ ~should_delete(acc, prune_disabled)
  /\ ~(acc.disabled \/ ~acc.required_ok)
  /\ ~acc.expired
  /\ ~acc.runtime_perma_disabled

\* maintain_once returns result (or raises, with the last result left as it
\* is): the finally block of lines 325-326 clears the status flag
m_leave(sv, result) ==
  [sv EXCEPT !.m = Maint0, !.running = FALSE, !.last_result = result]

\* lines 176-178: the lock of the service, status.running = True
m_enter ==
  /\ svc.m.at = "idle"
  /\ svc' = [svc EXCEPT !.m.at = "check", !.running = TRUE]
  /\ UNCHANGED <<via, reg, host, call, group_all, s, lock, dyn_penalty, last_switch_ts, clock,
                 group_now, pc, fr, failures>>

\* lines 180-199: skipped when ACCOUNTS_CONFIG is set or the target is <= 0
m_check ==
  /\ svc.m.at = "check"
  /\ \E target \in Targets :
       svc' = IF svc.accounts_config \/ target <= 0
              THEN m_leave(svc, [kind |-> "skipped", register_started |-> FALSE])
              ELSE [svc EXCEPT !.m.at = "scan", !.m.target = target]
  /\ UNCHANGED <<via, reg, host, call, group_all, s, lock, dyn_penalty, last_switch_ts, clock,
                 group_now, pc, fr, failures>>

\* lines 201-267: register_running, then the accounts are loaded (which may
\* raise) and sorted into deleted, kept and healthy
m_scan ==
  /\ svc.m.at = "scan"
  /\ \/ svc' = m_leave(svc, svc.last_result)
     \/ \E accounts \in AccountLists, prune_disabled \in BOOLEAN :
          LET deleted == {i \in DOMAIN accounts :
                            should_delete(accounts[i], prune_disabled)}
              healthy == Cardinality({i \in DOMAIN accounts :
                                        is_healthy(accounts[i], prune_disabled)})
          IN svc' = [svc EXCEPT
                       !.m.at = IF deleted # {} THEN "prune" ELSE "register",
                       !.m.healthy = healthy,
                       !.m.deleted = deleted # {},
                       !.m.register_running = current_task.status = "running"]
  /\ UNCHANGED <<via, reg, host, call, group_all, s, lock, dyn_penalty, last_switch_ts, clock,
                 group_now, pc, fr, failures>>

\* lines 269-285: _apply_accounts_update(kept) returns or raises; when it
\* raises the result is the prune error and no registration is started
m_prune ==
  /\ svc.m.at = "prune"
  /\ \E raised \in BOOLEAN :
       svc' = IF raised
              THEN m_leave(svc, [kind |-> "prune_failed", register_started |-> FALSE])
              ELSE [svc EXCEPT !.m.at = "register"]
  /\ UNCHANGED <<via, reg, host, call, group_all, s, lock, dyn_penalty, last_switch_ts, clock,
                 group_now, pc, fr, failures>>

\* lines 287-326: need = max(0, target - healthy); start_register(need) when
\* need > 0, no register task was seen running and there is a register
\* service; an exception of start_register is logged
m_register ==
  /\ svc.m.at = "register"
  /\ LET need == Max(0, svc.m.target - svc.m.healthy)
     IN \E has_service \in BOOLEAN :
          IF need > 0 /\ ~svc.m.register_running /\ has_service
          THEN \E sv \in start_register(TaskIds, need, 0) :
                 svc' = m_leave(sv, [kind |-> "done", register_started |-> sv # svc])
          ELSE svc' = m_leave(svc, [kind |-> "done", register_started |-> FALSE])
  /\ UNCHANGED <<via, reg, host, call, group_all, s, lock, dyn_penalty, last_switch_ts, clock,
                 group_now, pc, fr, failures>>

NextMaintain ==
  \/ m_enter
  \/ m_check
  \/ m_scan
  \/ m_prune
  \/ m_register
  \/ Call_start_register(TaskIds, {1})
  \/ task_begin(TaskIds)
  \/ task_iter(TaskIds)

SpecMaintain == InitTasks /\ [][NextMaintain]_vars

\* ------------------------------------------------------------------------
\* The manual switch helper _pick_next on its own (cgpool.py, lines 532-551)
\* ------------------------------------------------------------------------

\* the names in the group's list: the sentinels and two nodes
SwitchNames == {"DIRECT", "REJECT", "A", "S"}

\* the list "all" of the group, of any order and with repetitions
SwitchLists ==
  UNION {[1..k -> SwitchNames] : k \in 0..Cardinality(SwitchNames)}

\* the first position of x in seq (seq.index(x)), counted from 0
IndexOf(seq, x) ==
  CHOOSE i \in 0..(Len(seq) - 1) :
    /\ seq[i + 1] = x
    /\ \A j \in 0..(i - 1) : seq[j + 1] # x

\* mutant of pick_next: the search starts at the head of the list
pick_next_FromHead(candidates, current, bans) ==
  IF candidates = <<>> THEN None
  ELSE LET n == Len(candidates)
           at(i) == candidates[(i % n) + 1]
           hits == {i \in 0..(n - 1) :
                      /\ ~(current # None /\ at(i) = current)
                      /\ at(i) \notin {"DIRECT", "REJECT"}
                      /\ at(i) \notin bans}
       IN IF hits = {} THEN None
          ELSE at(CHOOSE i \in hits : \A j \in hits : i <= j)

\* _pick_next(candidates, current, bans), lines 532-551; bans is the set of
\* keys of the dict
pick_next(candidates, current, bans) ==
  IF candidates = <<>> THEN None
  ELSE LET n == Len(candidates)
           start == IF current # None /\ current \in Range(candidates)
                    THEN (IndexOf(candidates, current) + 1) % n
                    ELSE 0
           at(i) == candidates[((start + i) % n) + 1]
           hits == {i \in 0..(n - 1) :
                      /\ ~(current # None /\ at(i) = current)
                      /\ at(i) \notin {"DIRECT", "REJECT"}
                      /\ at(i) \notin bans}
       IN IF hits = {} THEN None
          ELSE at(CHOOSE i \in hits : \A j \in hits : i <= j)

Init_pick_next ==
  /\ PoolAtRest
  /\ dyn_penalty = EmptyMap
  /\ call = NoCall

Do_pick_next ==
  /\ call = NoCall
  /\ \E candidates \in SwitchLists, current \in SwitchNames \cup {None},
        bans \in SUBSET {"A", "S", "DIRECT"} :
       call' = [fn |-> "pick_next", candidates |-> candidates,
                current |-> current, bans |-> bans,
                nxt |-> pick_next(candidates, current, bans)]
  /\ UNCHANGED <<svc, via, reg, host, group_all, s, lock, dyn_penalty, last_switch_ts, clock,
                 group_now, pc, fr, failures>>

Spec_pick_next == Init_pick_next /\ [][Do_pick_next]_vars

\* ------------------------------------------------------------------------
\* Properties
\* ------------------------------------------------------------------------

\* the positions of a thread inside the selection loop (lines 580-647)
LoopPcs ==
  {"epr_head", "epr_sticky_preflight", "epr_sticky_done", "epr_pick",
   "epr_switch", "epr_preflight", "epr_preflight_done"}

\* the step is t's return at line 604 or line 642
Returns(t) ==
  /\ pc[t] \in {"epr_sticky_done", "epr_preflight_done"}
  /\ pc'[t] = "idle"

\* the step is t's raise of the pool-exhausted error, line 612
RaisesExhausted(t) == pc[t] = "epr_pick" /\ pc'[t] = "idle"

\* the step holds a select call of the control API: the group's now changes
SelectCall == group_now' # group_now

\* every probe of a details list passed: a status in 200..399 other than 407
AllPassed(details) ==
  /\ Len(details) = Len(PREFLIGHT_URLS)
  /\ \A i \in 1..Len(details) :
       /\ ~details[i].exc
       /\ details[i].status >= 200
       /\ details[i].status < 400
       /\ details[i].status # 407

\* the penalty of a node, 0 when the ledger has no entry
Pen(dyn, n) == IF n \in DOMAIN dyn THEN dyn[n] ELSE 0

\* C1: every select call targets a node whose score, base minus penalty, is at
\* least the threshold when the call is made; a return happens only while the
\* node the call holds as current has a score of at least the threshold; and a
\* best pick below the threshold ends the call with the pool-exhausted error
\* and without a select call.
C1_SelectAboveThreshold ==
  [][\A t \in Threads :
       /\ (SelectCall /\ pc[t] = "epr_switch" /\ pc'[t] # pc[t]) =>
            /\ group_now' = fr[t].best
            /\ BaseOf[group_now'] - Pen(dyn_penalty, group_now') >= SCORE_THRESHOLD
       /\ SelectCall => \E u \in Threads : pc[u] = "epr_switch" /\ pc'[u] # pc[u]
       /\ Returns(t) =>
            /\ fr[t].now \in Nodes
            /\ fr[t].now = group_now
            /\ BaseOf[fr[t].now] - Pen(dyn_penalty, fr[t].now) >= SCORE_THRESHOLD
       /\ (pc[t] = "epr_switch") =>
            BaseOf[fr[t].best] - Pen(dyn_penalty, fr[t].best) >= SCORE_THRESHOLD
       /\ RaisesExhausted(t) => ~SelectCall
       /\ (pc[t] = "epr_pick" /\ pc'[t] = "epr_switch") =>
            /\ fr'[t].best \in Range(fr[t].candidates)
            /\ \A m \in Range(fr[t].candidates) :
                 ~KeyLess(dyn_penalty, fr[t].alive_map, fr'[t].best, m)]_vars

\* C1 witness: a select call is about to be made for a node that holds a penalty
C1_Witness ==
  \E t \in Threads :
    /\ pc[t] = "epr_switch"
    /\ fr[t].best # fr[t].now
    /\ Pen(dyn_penalty, fr[t].best) > 0

\* C2: a call returns only right after a preflight in which every URL passed,
\* and no select call is made between that preflight and the return.
C2_ReturnAfterPassingPreflight ==
  [][\A t \in Threads :
       /\ Returns(t) => AllPassed(fr[t].details) /\ ~SelectCall
       /\ (pc[t] \in {"epr_sticky_done", "epr_preflight_done"}) => ~SelectCall
       /\ (pc[t] \in {"epr_sticky_preflight", "epr_preflight"}
             /\ pc'[t] # pc[t]) =>
            /\ pc'[t] \in {"epr_sticky_done", "epr_preflight_done"}
            /\ ~SelectCall]_vars

\* C2 witness: a preflight passed after a select call of the same invocation
C2_Witness ==
  \E t \in Threads :
    /\ pc[t] = "epr_preflight_done"
    /\ fr[t].ok
    /\ fr[t].now = fr[t].best
    /\ group_now = fr[t].best
    /\ last_switch_ts = clock
    /\ clock > 0

\* C3 (as claimed): when the pool-exhausted error is raised, no usable candidate
\* has a score of at least the threshold.
C3_ExhaustedOnlyWhenNoneEligible ==
  \A t \in Threads :
    (pc[t] = "epr_pick"
       /\ exhausted(dyn_penalty,
                    best_of(dyn_penalty, fr[t].candidates, fr[t].alive_map)))
    => \A n \in Range(fr[t].candidates) :
         BaseOf[n] - Pen(dyn_penalty, n) < SCORE_THRESHOLD

\* the step is the end of an iteration by a failed preflight (lines 605-607 and
\* 644-647)
FailedPreflight(t) ==
  /\ pc[t] \in {"epr_sticky_done", "epr_preflight_done"}
  /\ pc'[t] # pc[t]
  /\ ~fr[t].ok

\* C4: the selection loop terminates: a thread inside the loop leaves it, by a
\* return or a raise; and every failed preflight strictly lowers the score of
\* the node that failed, which is then below the threshold.
C4_LoopTerminates ==
  /\ (pc["w1"] \in LoopPcs) ~> (pc["w1"] = "idle")
  /\ [][\A t \in {"w1"} :
          FailedPreflight(t) =>
            /\ fr[t].now \in Nodes
            /\ Pen(dyn_penalty', fr[t].now) > Pen(dyn_penalty, fr[t].now)
            /\ BaseOf[fr[t].now] - Pen(dyn_penalty', fr[t].now) < SCORE_THRESHOLD]_vars

\* C4 witness: a second iteration of the loop, after a failed preflight of the
\* node that was selected in the first
C4_Witness ==
  \E t \in {"w1"} :
    /\ pc[t] = "epr_head"
    /\ fr[t].best # None
    /\ ~fr[t].ok
    /\ fr[t].details # <<>>
    /\ Pen(dyn_penalty, fr[t].best) >= PENALTY_PREFLIGHT

\* C5: when the current node exists, is among the usable candidates and scores
\* at least the threshold, the loop goes to its preflight, and when that passes
\* the call returns: from the group's answer to the return there is no select
\* call and no penalty, whatever the other candidates' scores and ranks are.
C5_StickyNoSwitch ==
  [][\A t \in Threads :
       /\ (pc[t] = "epr_head" /\ pc'[t] \in LoopPcs
             /\ fr'[t].now \in Range(fr'[t].candidates)
             /\ BaseOf[fr'[t].now] - Pen(dyn_penalty', fr'[t].now)
                  >= SCORE_THRESHOLD) =>
            /\ pc'[t] = "epr_sticky_preflight"
            /\ fr'[t].now = group_now
            /\ ~SelectCall
            /\ \A n \in Nodes : Pen(dyn_penalty', n) = Pen(dyn_penalty, n)
       /\ (pc[t] = "epr_sticky_preflight") =>
            /\ pc'[t] \in {"epr_sticky_preflight", "epr_sticky_done"}
            /\ ~SelectCall
            /\ dyn_penalty' = dyn_penalty
       /\ (pc[t] = "epr_sticky_done" /\ AllPassed(fr[t].details)) =>
            /\ ~SelectCall
            /\ dyn_penalty' = dyn_penalty
            /\ pc'[t] \in {"epr_sticky_done", "idle"}]_vars

\* C5 witness: the preflight of the current node passed while another usable
\* candidate ranks higher
C5_Witness ==
  \E t \in Threads :
    /\ pc[t] = "epr_sticky_done"
    /\ fr[t].ok
    /\ \E m \in Range(fr[t].candidates) :
         KeyLess(dyn_penalty, fr[t].alive_map, fr[t].now, m)

\* the step is the idle check of t (line 576)
IdleCheck(t) == pc[t] = "epr_refresh" /\ pc'[t] = "epr_head"

\* C6: every penalty is at least 0, and no penalty decreases in a step, except
\* in an idle check that sets every penalty to 0.
C6_PenaltyMonotone ==
  /\ [](\A n \in DOMAIN dyn_penalty : dyn_penalty[n] >= 0)
  /\ [][(\A n \in DOMAIN dyn_penalty :
            /\ n \in DOMAIN dyn_penalty'
            /\ dyn_penalty'[n] >= dyn_penalty[n])
        \/ ((\E t \in Threads : IdleCheck(t))
            /\ (\A m \in DOMAIN dyn_penalty' : dyn_penalty'[m] = 0))]_vars

\* C6 witness: a node holds the penalties of two events, a mail failure and a
\* failed preflight
C6_Witness ==
  \E n \in DOMAIN dyn_penalty :
    dyn_penalty[n] = PENALTY_MAIL + PENALTY_PREFLIGHT

\* C7 (as claimed): while the ensure_proxy_reachable that on_failure called
\* after its penalty is in the selection loop, the penalised node still holds
\* that penalty: its ledger entry is at least the smallest weight of the table.
C7_PenaltySeenByReselection ==
  \A t \in Threads :
    (fr[t].op = "of_post" /\ pc[t] \in LoopPcs)
    => Pen(dyn_penalty, fr[t].fnode) >= PENALTY_MAIL

\* the positions of a thread inside a with self._lock block
CriticalPcs == {"es_body", "epr_refresh", "of_get"} \cup LoopPcs

\* C8: a thread inside ensure_started, inside the idle check and the selection
\* loop, or inside the locked part of on_failure holds the lock, so at most
\* one thread is there; and every step that changes the ledger, the idle timer
\* or the group's selection is a step of the thread that holds the lock.
C8_LockDiscipline ==
  /\ [](/\ \A t \in Threads : pc[t] \in CriticalPcs => lock = t
        /\ Cardinality({t \in Threads : pc[t] \in LoopPcs}) <= 1)
  /\ [][(\/ dyn_penalty' # dyn_penalty
          \/ last_switch_ts' # last_switch_ts
          \/ group_now' # group_now) =>
          /\ lock \in Threads
          /\ pc[lock] \in CriticalPcs
          /\ pc'[lock] # pc[lock]
          /\ \A u \in Threads \ {lock} : pc'[u] = pc[u] /\ fr'[u] = fr[u]]_vars

\* C8 witness: one thread is in the loop while the other waits for the lock
C8_Witness ==
  \E t, u \in Threads :
    /\ t # u
    /\ pc[t] \in LoopPcs
    /\ pc[u] \in {"epr_lock", "of_lock", "es_lock"}

\* C9: an idle check at which the time since the last switch is at least the
\* idle threshold and some penalty is positive sets every penalty of the ledger
\* to 0 and the idle timer to the current time; an idle check at which that
\* time is below the threshold changes no penalty and not the timer.
C9_IdleReset ==
  [][\A t \in Threads :
       IdleCheck(t) =>
         /\ (clock - last_switch_ts >= REFRESH_IDLE_SECONDS
               /\ \E n \in DOMAIN dyn_penalty : dyn_penalty[n] > 0) =>
              /\ DOMAIN dyn_penalty' = DOMAIN dyn_penalty
              /\ \A n \in DOMAIN dyn_penalty' : dyn_penalty'[n] = 0
              /\ last_switch_ts' = clock
         /\ (clock - last_switch_ts < REFRESH_IDLE_SECONDS) =>
              /\ dyn_penalty' = dyn_penalty
              /\ last_switch_ts' = last_switch_ts]_vars

\* C9 witness: the idle check is due with a positive penalty in the ledger
C9_Witness ==
  \E t \in Threads :
    /\ pc[t] = "epr_refresh"
    /\ clock - last_switch_ts >= REFRESH_IDLE_SECONDS
    /\ \E n \in DOMAIN dyn_penalty : dyn_penalty[n] > 0

\* the ledger holds no positive penalty
AllZero == \A n \in DOMAIN dyn_penalty : dyn_penalty[n] = 0

\* C10 (as claimed): an idle check with all penalties 0 changes neither the
\* ledger nor the idle timer.
C10_IdleCheckNoOp ==
  [][\A t \in Threads :
       (IdleCheck(t) /\ AllZero) =>
         /\ dyn_penalty' = dyn_penalty
         /\ last_switch_ts' = last_switch_ts]_vars

\* C10 (amended): an idle check with all penalties 0 leaves the ledger as it
\* is; it leaves the idle timer as it is when the time since the last switch
\* is below the idle threshold, and sets it to the current time otherwise.
C10_IdleCheckZeroLedger ==
  [][\A t \in Threads :
       (IdleCheck(t) /\ AllZero) =>
         /\ dyn_penalty' = dyn_penalty
         /\ last_switch_ts' =
              IF clock - last_switch_ts < REFRESH_IDLE_SECONDS
              THEN last_switch_ts ELSE clock]_vars

\* C10 witness: the idle check is due and the ledger has entries, all 0
C10_Witness ==
  \E t \in Threads :
    /\ pc[t] = "epr_refresh"
    /\ clock - last_switch_ts >= REFRESH_IDLE_SECONDS
    /\ DOMAIN dyn_penalty # {}
    /\ AllZero

\* C11: a penalty event adds the table value of its kind (preflight 100, risk
\* 60, proxy 30, mail 5, any other kind 60) to the penalty of the node passed
\* to it, and leaves the penalty of every other node as it was.
C11_PenaltyExact ==
  (call.fn = "_apply_penalty") =>
    LET w == IF call.kind = "preflight" THEN 10000
             ELSE IF call.kind = "proxy" THEN 3000
             ELSE IF call.kind = "mail" THEN 500
             ELSE 6000
    IN /\ DOMAIN dyn_penalty = DOMAIN call.before \cup {call.name}
       /\ dyn_penalty[call.name] = Pen(call.before, call.name) + w
       /\ \A n \in DOMAIN dyn_penalty \ {call.name} :
            dyn_penalty[n] = call.before[n]

\* C11 witness: a kind outside the table was charged to a node that held a
\* penalty, while another node holds one too
C11_Witness ==
  /\ call.fn = "_apply_penalty"
  /\ call.kind = "timeout"
  /\ Pen(call.before, call.name) > 0
  /\ \E n \in DOMAIN dyn_penalty \ {call.name} : dyn_penalty[n] > 0

\* C12: a failed preflight is absorbed: the step that ends it adds the
\* preflight penalty of 100 to the node that was probed, the current node of
\* the group, and to no other node, and goes on inside the loop, under the
\* lock, to the next evaluation of the candidates; a call leaves the loop from
\* the position after a preflight only when that preflight passed.
C12_PreflightFailureAbsorbed ==
  [][\A t \in Threads :
       /\ FailedPreflight(t) =>
            /\ fr[t].now = group_now
            /\ fr[t].now \in Nodes
            /\ Pen(dyn_penalty', fr[t].now) = Pen(dyn_penalty, fr[t].now) + 10000
            /\ \A n \in Nodes \ {fr[t].now} :
                 Pen(dyn_penalty', n) = Pen(dyn_penalty, n)
            /\ pc'[t] \in {"epr_pick", "epr_head"}
            /\ lock' = t
            /\ ~SelectCall
       /\ (pc[t] \in {"epr_sticky_done", "epr_preflight_done"}
             /\ pc'[t] = "idle") => fr[t].ok]_vars

\* C12 witness: the sticky preflight failed, the current node holds the
\* penalty, and the best pick is about to be made
C12_Witness ==
  \E t \in Threads :
    /\ pc[t] = "epr_pick"
    /\ ~fr[t].ok
    /\ fr[t].details # <<>>
    /\ fr[t].now = group_now
    /\ Pen(dyn_penalty, fr[t].now) >= 10000

\* C13: the candidates of a call and its best pick are never DIRECT or REJECT,
\* and no select call targets one of them, whatever the members of the group
\* and its current selection are.
C13_NoSentinelCandidate ==
  /\ [](\A t \in DOMAIN pc :
          /\ Range(fr[t].candidates) \cap {"DIRECT", "REJECT"} = {}
          /\ DOMAIN fr[t].alive_map \cap {"DIRECT", "REJECT"} = {}
          /\ fr[t].best \notin {"DIRECT", "REJECT"})
  /\ [][SelectCall => group_now' \notin {"DIRECT", "REJECT"}]_vars

\* C13 witness: the group's selection is a sentinel, a sentinel stands between
\* the members, and a select call is about to be made
C13_Witness ==
  \E t \in DOMAIN pc :
    /\ pc[t] = "epr_switch"
    /\ group_now = "DIRECT"
    /\ fr[t].now = "DIRECT"
    /\ group_all = <<"S", "REJECT", "A">>
    /\ fr[t].best \in Nodes

\* C14: while some candidate of the group is not marked alive=false, the
\* candidates of the iteration are the ones not marked alive=false and the
\* select call is for one of them; when every candidate is marked alive=false
\* the candidates are all of them.
C14_NoSelectOfDeadNode ==
  [][\A t \in DOMAIN pc :
       LET alive_map == fr[t].alive_map
           undead == {n \in DOMAIN alive_map : alive_map[n] # "False"}
       IN /\ (pc[t] \in {"epr_sticky_preflight", "epr_sticky_done", "epr_pick",
                          "epr_switch"}) =>
               Range(fr[t].candidates) =
                 IF undead # {} THEN undead ELSE DOMAIN alive_map
          /\ (pc[t] = "epr_switch" /\ SelectCall /\ undead # {}) =>
               /\ group_now' \in DOMAIN alive_map
               /\ alive_map[group_now'] # "False"]_vars

\* C14 witness: a select call is about to be made for a node of unknown
\* liveness while a node with a higher score is marked alive=false
C14_Witness ==
  \E t \in DOMAIN pc :
    /\ pc[t] = "epr_switch"
    /\ fr[t].best # fr[t].now
    /\ fr[t].alive_map[fr[t].best] = None
    /\ \E n \in DOMAIN fr[t].alive_map :
         /\ fr[t].alive_map[n] = "False"
         /\ BaseOf[n] - Pen(dyn_penalty, n)
              > BaseOf[fr[t].best] - Pen(dyn_penalty, fr[t].best)

\* C17: with a group that has no member besides the sentinels, the head of the
\* loop ends the call with the lock released: the step changes no penalty and
\* not the idle timer, makes no select call, and no preflight follows.
C17_NoCandidatesFailsFast ==
  [][\A t \in DOMAIN pc :
       (pc[t] = "epr_head" /\ pc'[t] # pc[t]
          /\ Range(group_all) \subseteq {"DIRECT", "REJECT"}) =>
         /\ pc'[t] = "idle"
         /\ lock' = None
         /\ dyn_penalty' = dyn_penalty
         /\ last_switch_ts' = last_switch_ts
         /\ ~SelectCall]_vars

\* C17 witness: a call went through the idle check, which set the idle timer,
\* to the head of the loop of a group with sentinels only, and has ended with
\* no entry in the ledger
C17_Witness ==
  /\ group_all = <<"DIRECT", "REJECT">>
  /\ pc["w1"] = "idle"
  /\ last_switch_ts > 0
  /\ dyn_penalty = EmptyMap

\* the liveness rank of candidate n of the best pick that was made: alive=true
\* above unknown
RankOf(n) == IF call.alive_map[n] = "True" THEN 2 ELSE 1

\* the score of candidate n of the best pick that was made
ScoreOf(n) == BaseOf[n] - Pen(dyn_penalty, n)

\* C15: the best pick is one of the usable candidates; no candidate has a
\* higher liveness rank, and none with the same rank has a higher score.
C15_BestIsMaximal ==
  (call.fn = "max") =>
    /\ call.best \in Range(call.candidates)
    /\ \A n \in Range(call.candidates) :
         /\ RankOf(n) <= RankOf(call.best)
         /\ (RankOf(n) = RankOf(call.best)) => ScoreOf(n) <= ScoreOf(call.best)

\* C15 witness: the best pick is alive while a candidate of unknown liveness
\* has the higher score
C15_Witness ==
  /\ call.fn = "max"
  /\ \E n \in Range(call.candidates) :
       /\ RankOf(n) < RankOf(call.best)
       /\ ScoreOf(n) > ScoreOf(call.best)

\* the candidates that tie with the best pick in rank and score
TiedWithBest ==
  {n \in Range(call.candidates) \ {call.best} :
     RankOf(n) = RankOf(call.best) /\ ScoreOf(n) = ScoreOf(call.best)}

\* C16 (as claimed): among the candidates that share the highest rank and the
\* same score, the best pick is the one whose name comes first in ascending
\* order.
C16_TieBreakAscending ==
  (call.fn = "max") =>
    \A n \in TiedWithBest : StrLess(NameText[call.best], NameText[n])

\* C16 (amended): among the candidates that share the highest rank and the
\* same score, the best pick is the one whose name comes last in ascending
\* order of the code points.
C16_TieBreakGreatestName ==
  (call.fn = "max") =>
    \A n \in TiedWithBest : StrLess(NameText[n], NameText[call.best])

\* C16 witness: two candidates tie at the top
C16_Witness ==
  /\ call.fn = "max"
  /\ TiedWithBest # {}

\* C18: preflight probes the URLs in their order and stops at the first probe
\* that fails: it succeeds iff every URL passes; the details are those of the
\* URLs up to and with the first failing one, in order, so the list ends with
\* the failing probe and no later URL is probed; a probe passes iff there is
\* no exception and the status is in 200..399 (407 is a failure).
C18_PreflightShortCircuit ==
  (call.fn = "_preflight") =>
    LET Passes(r) == ~r.exc /\ r.status >= 200 /\ r.status <= 399
        failing == {i \in DOMAIN call.results : ~Passes(call.results[i])}
        last == IF failing = {}
                THEN Len(PREFLIGHT_URLS)
                ELSE CHOOSE i \in failing : \A j \in failing : i <= j
    IN /\ call.ok <=> failing = {}
       /\ Len(call.details) = last
       /\ \A i \in 1..last : call.details[i] = call.results[i]

\* C18 witness: the first URL answers 407, and the second, which would have
\* passed, is not probed
C18_Witness ==
  /\ call.fn = "_preflight"
  /\ call.results[1] = Status(407)
  /\ call.results[2] = Status(204)
  /\ ~call.ok
  /\ call.details = <<Status(407)>>

\* C19: classify_failure goes by the first match: a blank text gives (other,
\* empty); else an OTP-timeout marker gives (mail, otp_timeout), whatever other
\* markers there are; else the first marker of the risk list that the text
\* holds gives risk with that marker; else the first marker of the proxy list
\* gives proxy with that marker; else (other, unknown).  The text in capitals
\* and the text in lower case give the same result.
C19_ClassifyFirstMatch ==
  (call.fn = "classify_failure") =>
    LET low == Lower(call.error)
        Has(m) == Contains(low, m)
        Blank == \A i \in DOMAIN call.error : call.error[i] \in Whitespace
        Otp == \/ Has(OTP_MARKERS[1])
               \/ Has(OTP_MARKERS[2])
               \/ Contains(call.error, OTP_MARKER_RAW)
        FirstOf(markers) ==
          markers[CHOOSE i \in DOMAIN markers :
                    Has(markers[i]) /\ \A j \in 1..(i - 1) : ~Has(markers[j])]
        HasAny(markers) == \E i \in DOMAIN markers : Has(markers[i])
    IN /\ call.result =
            IF Blank THEN <<"other", DETAIL_EMPTY>>
            ELSE IF Otp THEN <<"mail", DETAIL_OTP_TIMEOUT>>
            ELSE IF HasAny(RISK_MARKERS) THEN <<"risk", FirstOf(RISK_MARKERS)>>
            ELSE IF HasAny(PROXY_MARKERS) THEN <<"proxy", FirstOf(PROXY_MARKERS)>>
            ELSE <<"other", UNKNOWN>>
       /\ call.result = classify_failure(low)
       /\ call.result = classify_failure(Cased(low, "upper"))

\* C19 witness: a text in capitals with a proxy marker in front of the last
\* marker of the risk list is classified as risk
C19_Witness ==
  /\ call.fn = "classify_failure"
  /\ call.error # Lower(call.error)
  /\ Contains(Lower(call.error),
              PROXY_MARKERS[Len(PROXY_MARKERS)] \o PART_SEP
                \o RISK_MARKERS[Len(RISK_MARKERS)])
  /\ call.result = <<"risk", RISK_MARKERS[Len(RISK_MARKERS)]>>

\* the names of the list that a merge wrote
OutNames == [i \in DOMAIN call.out |-> call.out[i].name]

\* the merge was of two entries with one name, which is not empty
TwoOfOneName ==
  /\ call.fn = "merge"
  /\ Len(call.merged) = 2
  /\ call.merged[1].name = call.merged[2].name
  /\ call.merged[1].name = RStrip(call.merged[1].name)
  /\ call.merged[1].name # <<>>

\* C20 (as claimed): the merge of two entries of the same configuration and
\* the same name X writes the names [X, X__dup1].
C20_SameConfigSuffixed ==
  (TwoOfOneName /\ call.merged[1].cfg = call.merged[2].cfg) =>
    OutNames = <<call.merged[1].name,
                 call.merged[1].name \o DUP_MARK \o <<49>>>>

\* C20 (amended): the merge of two entries of the same configuration and the
\* same name X writes the first entry only, names [X]; the merge of two
\* entries of different configurations and the same name X writes both, names
\* [X, X__dup1], the first one keeping the name X.
C20_SameConfigDropped ==
  TwoOfOneName =>
    IF call.merged[1].cfg = call.merged[2].cfg
    THEN call.out = <<call.merged[1]>>
    ELSE /\ OutNames = <<call.merged[1].name,
                         call.merged[1].name \o DUP_MARK \o <<49>>>>
         /\ call.out[1] = call.merged[1]
         /\ call.out[2].cfg = call.merged[2].cfg

\* C20 witness: two entries named X of the same configuration were merged
C20_Witness ==
  /\ TwoOfOneName
  /\ call.merged[1].name = <<88>>
  /\ call.merged[1].cfg = call.merged[2].cfg
  /\ Len(call.out) = 1

\* the positions of merged whose name is not empty after rstrip
Named(merged) == {i \in DOMAIN merged : RStrip(merged[i].name) # <<>>}

\* the named positions that are the first of their configuration among the
\* named ones
FirstOfConfig(merged) ==
  {i \in Named(merged) :
     \A j \in Named(merged) : j < i => merged[j].cfg # merged[i].cfg}

\* the k-th smallest member of a set of positions
RECURSIVE KthOf(_, _)
KthOf(positions, k) ==
  LET m == CHOOSE x \in positions : \A y \in positions : x <= y
  IN IF k = 1 THEN m ELSE KthOf(positions \ {m}, k - 1)

NothingUsable(fetched) == ~fetched.ok \/ merge(fetched.merged) = <<>>

\* C22 (as claimed): fetch_provider raises only when there is no provider
\* file, and when the fetch of the sources fails or gives nothing usable while
\* there is a provider file, the call returns and leaves the file as it was.
C22_RaisesOnlyWithoutFile ==
  call.fn = "fetch_provider" =>
    /\ call.result.outcome = "raise" => ~call.provider.exists
    /\ (call.provider.exists /\ call.result.fetch /\ NothingUsable(call.fetched))
         => call.result.provider = call.provider

LiveEngines == host.live \cap PoolEngines

\* t takes the first step of start_mihomo while the pid file names a live
\* process
StartWhileRunning(t) ==
  /\ pc[t] = "es_start"
  /\ pc'[t] # "es_start"
  /\ is_mihomo_running(host)

C25_NotReadyRaises ==
  (call.fn = "ensure_started" /\ s.required /\ call.step = "not_ready")
    => call.outcome = "raise"

\* the last ensure_started of t failed with a pool that is not required, and t
\* is the caller of ensure_proxy_reachable
StartFailureSwallowed(t) ==
  /\ ~s.required
  /\ call.fn = "ensure_started"
  /\ call.by = t
  /\ call.op = "epr"
  /\ call.failed

\* C26 (as claimed): a failure of fetch_provider or start_mihomo makes
\* ensure_started return when the pool is not required and raise when it is
\* required, and the ensure_proxy_reachable that goes on after a swallowed
\* failure does not raise: it does not leave the head of its loop by an
\* exception.
C26_StartFailureSwallowed ==
  /\ [](call.fn = "ensure_started" /\ call.failed
          => call.outcome = IF s.required THEN "raise" ELSE "return")
  /\ [][\A t \in DOMAIN pc :
          StartFailureSwallowed(t) => ~(pc[t] = "epr_head" /\ pc'[t] = "idle")]_vars

\* some part of the name holds the text
SomePartHas(parts, text) == \E i \in DOMAIN parts : Contains(parts[i], text)

\* the part cut at its first "(", without the white space around it
RECURSIVE CutAtParen(_)
CutAtParen(part) ==
  IF part = <<>> \/ part[1] = LPAREN[1] THEN <<>>
  ELSE <<part[1]>> \o CutAtParen(Tail(part))

OrUnknown(text) == IF text = <<>> THEN UNKNOWN ELSE text

\* the base score that goes with a kind, a line and a risk
BaseFor(kind, line, risk) ==
  sigmoid100(BASE_BIAS + KIND_W[kind]
             + (IF kind = "tagged"
                THEN Get(LINE_W, line, 0) + Get(RISK_W, risk, 0) ELSE 0))

\* C27: _parse_name gives garbage for a name with the marker of garbage names,
\* whatever else the name holds; else speednode for a name with the fast-node
\* tag in any letter case, whatever its parts; else tagged for a name of three
\* parts or more, with the second part as line and the third part cut at its
\* first parenthesis as risk (unknown when empty); else other; and the base
\* score is the one of the weight tables for that kind, line and risk.
C27_ParsePriority ==
  call.fn = "_base_score" =>
    LET parts == call.parts
        kind == call.parsed[1]
        line == call.parsed[2]
        risk == call.parsed[3]
    IN /\ IF SomePartHas(parts, GARBAGE_MARK)
          THEN call.parsed = <<"garbage", GARBAGE, GARBAGE>>
          ELSE IF SomePartHas([i \in DOMAIN parts |-> Lower(parts[i])], SPEEDNODE_MARK)
          THEN call.parsed = <<"speednode", SPEEDNODE_MARK, UNKNOWN>>
          ELSE IF Len(parts) >= 3
          THEN /\ kind = "tagged"
               /\ line = OrUnknown(Strip(parts[2]))
               /\ risk = OrUnknown(Strip(CutAtParen(Strip(parts[3]))))
          ELSE call.parsed = <<"other", UNKNOWN, UNKNOWN>>
       /\ call.base = BaseFor(kind, line, risk)

\* C27 witness: a name of three parts with the marker of garbage names in the
\* first, the fast-node tag in the second and a risk in the third was parsed
\* as garbage
C27_Witness ==
  /\ call.fn = "_base_score"
  /\ Len(call.parts) = 3
  /\ call.parts[1] = GARBAGE_MARK
  /\ Contains(Lower(call.parts[2]), SPEEDNODE_MARK)
  /\ call.parts[3] = <<20302, 39118, 38505, 32, 40, 120, 41>>
  /\ call.parsed[1] = "garbage"

\* the candidates of the caller hold A and B with the same alive flag, and
\* neither has a penalty
BothEquallyAlive ==
  /\ {"A", "B"} \subseteq Range(fr["w1"].candidates)
  /\ fr["w1"].alive_map["A"] = fr["w1"].alive_map["B"]
  /\ Pen(dyn_penalty, "A") = 0
  /\ Pen(dyn_penalty, "B") = 0

\* C28: the base score of A is above the threshold and the base score of B is
\* below it; the best pick among A and B, equally alive and without penalty,
\* is A; no select call targets B; and the best pick of a group whose only
\* candidate is B, without penalty, ends the call with the pool-exhausted
\* error and without a select call.
C28_PrefersAExcludesB ==
  /\ [](BaseOf["A"] > SCORE_THRESHOLD /\ BaseOf["B"] < SCORE_THRESHOLD)
  /\ [][/\ (pc["w1"] = "epr_pick" /\ pc'["w1"] # "epr_pick" /\ BothEquallyAlive)
            => (pc'["w1"] = "epr_switch" /\ fr'["w1"].best = "A")
        /\ SelectCall => group_now' # "B"
        /\ (/\ pc["w1"] = "epr_pick"
            /\ pc'["w1"] # "epr_pick"
            /\ fr["w1"].candidates = <<"B">>
            /\ Pen(dyn_penalty, "B") = 0)
            => (pc'["w1"] = "idle" /\ ~SelectCall)]_vars

\* C28 witness: the engine's current node is B, the caller holds A and B as
\* equally alive candidates without penalty and has picked A
C28_Witness ==
  /\ pc["w1"] = "epr_switch"
  /\ group_now = "B"
  /\ BothEquallyAlive
  /\ fr["w1"].best = "A"

\* t takes the step of lines 614-636
SwitchStep(t) == pc[t] = "epr_switch" /\ pc'[t] # "epr_switch"

\* C29: in the step after the best pick, the caller holds the group's current
\* selection as now; when the best pick differs from it, a select call for the
\* best pick is made, which fails and ends the call or changes the selection
\* and sets the idle timer to the current time in the step that leads to the
\* preflight; when the best pick is the current selection, neither the
\* selection nor the idle timer changes; a select call is made in that step
\* only, and that step is taken once per iteration: it is entered from the
\* best pick only, which is entered from the head of the loop or the sticky
\* preflight that follows the head.
C29_SelectIffBestDiffers ==
  [][\A t \in DOMAIN pc :
       /\ SwitchStep(t) =>
            /\ fr[t].now = group_now
            /\ IF fr[t].best # fr[t].now
               THEN \/ pc'[t] = "idle" /\ ~SelectCall /\ last_switch_ts' = last_switch_ts
                    \/ /\ pc'[t] = "epr_preflight"
                       /\ SelectCall
                       /\ group_now' = fr[t].best
                       /\ fr'[t].now = fr[t].best
                       /\ last_switch_ts' = clock
               ELSE /\ pc'[t] = "epr_preflight"
                    /\ ~SelectCall
                    /\ last_switch_ts' = last_switch_ts
       /\ SelectCall => SwitchStep(t)
       /\ (pc'[t] = "epr_switch" /\ pc[t] # "epr_switch") => pc[t] = "epr_pick"
       /\ (pc'[t] = "epr_pick" /\ pc[t] # "epr_pick")
            => pc[t] \in {"epr_head", "epr_sticky_done"}
       /\ (pc'[t] = "epr_sticky_done" /\ pc[t] # "epr_sticky_done")
            => pc[t] = "epr_sticky_preflight"
       /\ (pc'[t] = "epr_sticky_preflight" /\ pc[t] # "epr_sticky_preflight")
            => pc[t] = "epr_head"]_vars

\* C29 witness: the caller made a select call at a time later than the idle
\* timer it found and is before the preflight, the idle timer being now
C29_Witness ==
  /\ pc["w1"] = "epr_preflight"
  /\ fr["w1"].best = fr["w1"].now
  /\ group_now = fr["w1"].best
  /\ clock > 0
  /\ last_switch_ts = clock
  /\ Pen(dyn_penalty, group_now) = 0

\* the positions of _register_one inside while True
RegLoop == {"loop", "automation", "on_failure"}

\* C30: with the pool enabled, the automation is entered only from an
\* ensure_proxy_reachable of the loop that returned; a failed automation leads
\* to on_failure with the kind and detail that classify_failure gives for its
\* error text, on_failure is entered only from a failed automation and is left
\* only to the ensure_proxy_reachable of the next iteration or by its
\* exception; and the loop is left only by a successful automation or by the
\* exception of a pool call.
C30_RegisterLoop ==
  [][s.enabled =>
       /\ (reg'.at = "automation" /\ reg.at # "automation") => reg.at = "loop"
       /\ (reg.at = "loop" /\ reg'.at # "loop")
            => \/ reg'.at = "automation"
               \/ reg'.at = "returned" /\ reg'.result = POOL_UNAVAILABLE
       /\ (reg.at = "automation" /\ reg'.at # "automation")
            => \/ reg'.at = "returned" /\ reg'.result = "success"
               \/ /\ reg'.at = "on_failure"
                  /\ reg'.err # <<>>
                  /\ <<reg'.kind, reg'.detail>> = classify_failure(reg'.err)
       /\ (reg'.at = "on_failure" /\ reg.at # "on_failure") => reg.at = "automation"
       /\ (reg.at = "on_failure" /\ reg'.at # "on_failure")
            => \/ reg'.at = "loop" /\ reg'.kind = reg.kind
               \/ reg'.at = "returned" /\ reg'.result = POOL_EXHAUSTED
       /\ (reg.at \in RegLoop /\ reg'.at \notin RegLoop)
            => /\ reg'.at = "returned"
               /\ reg'.result \in {"success", POOL_UNAVAILABLE, POOL_EXHAUSTED}]_vars

\* C30 witness: with the pool enabled, an automation failed with an error
\* classified as risk, on_failure returned, and the next iteration's
\* ensure_proxy_reachable returned: the next automation is about to run
C30_Witness ==
  /\ s.enabled
  /\ reg.at = "automation"
  /\ reg.kind = "risk"

\* A caller that waits for the pool lock while it is the holder of that lock:
\* threading.Lock (line 173) is not reentrant, so the wait never ends.
SelfBlocked(t) ==
  /\ pc[t] = "es_lock"
  /\ lock = t

\* C31: on_failure on an enabled pool whose group reports no current node
\* always completes: the caller never waits for the pool lock while holding
\* it, so the lock is released again and other callers can acquire it.
C31_OnFailureCompletes ==
  \A t \in Threads : ~SelfBlocked(t)

\* C32: with two workers on one pool, the penalty that a worker's on_failure
\* records goes to the node that was current when that worker's
\* ensure_proxy_reachable returned, never to a node selected later by the
\* other worker.
C32_ChargedToAttemptNode ==
  \A t \in Threads : fr[t].op = "of_post" => fr[t].fnode = via[t].node

\* the nodes of a list are pairwise different
NoRepeat(seq) == \A i, j \in 1..Len(seq) : seq[i] = seq[j] => i = j

\* C33: within one invocation of ensure_proxy_reachable no node is
\* preflighted more than once, and _preflight() runs only while the current
\* node's score is at least the threshold.
C33_PreflightOncePerNode ==
  \A t \in Threads :
    /\ NoRepeat(fr[t].tried)
    /\ pc[t] \in {"epr_sticky_preflight", "epr_preflight"}
         => score(dyn_penalty, fr[t].now) >= SCORE_THRESHOLD

\* a caller is about to run the second preflight of its invocation, against
\* a node other than the first, which has its preflight penalty
C33_Witness ==
  \E t \in Threads :
    /\ pc[t] = "epr_preflight"
    /\ Len(fr[t].tried) = 1
    /\ fr[t].tried[1] # fr[t].now
    /\ Pen(dyn_penalty, fr[t].tried[1]) >= PENALTY_PREFLIGHT

\* C34: the node names written to the provider file are pairwise distinct
\* for every input list.
C34_OutNamesDistinct ==
  call.fn = "merge" => NoRepeat(OutNames)

\* the nodes whose name parses to kind other or garbage
LowKind == {n \in DOMAIN NameText : parse_name(NameText[n])[1] \in {"other", "garbage"}}

\* C35: a node of kind other or garbage has a base score below the
\* threshold; ensure_proxy_reachable never passes the sticky test with such a
\* node, never picks one for a select call, and no step makes one current.
C35_LowKindNeverChosen ==
  /\ [](\A n \in LowKind : BaseOf[n] < SCORE_THRESHOLD)
  /\ [](pc["w1"] \in {"epr_sticky_preflight", "epr_sticky_done"}
          => fr["w1"].now \notin LowKind)
  /\ [](pc["w1"] \in {"epr_switch", "epr_preflight", "epr_preflight_done"}
          => fr["w1"].best \notin LowKind)
  /\ [][SelectCall => group_now' \notin LowKind]_vars

\* the node of kind other is current, is a usable candidate, and the call has
\* gone past the sticky test to the best pick without a preflight
C35_Witness ==
  /\ pc["w1"] = "epr_pick"
  /\ fr["w1"].now = "O"
  /\ "O" \in Range(fr["w1"].candidates)
  /\ fr["w1"].tried = <<>>
  /\ LowKind = {"O", "G"}

\* C36: on a disabled pool ensure_started, ensure_proxy_reachable and
\* on_failure return at once: the caller never leaves idle, the lock stays
\* free, and no step changes the lock, the penalty ledger, the idle timer, the
\* engine's group, the host (provider file, pid file, processes) or a frame.
C36_DisabledChangesNothing ==
  /\ [](~s.enabled => (lock = None /\ pc["w1"] = "idle" /\ fr["w1"] = Frame0))
  /\ [][~s.enabled =>
          UNCHANGED <<s, lock, dyn_penalty, last_switch_ts, group_now,
                      group_all, host, call, pc, fr>>]_vars

\* on_failure has been called on a disabled pool
C36_Witness ==
  /\ ~s.enabled
  /\ failures = 1
  /\ pc["w1"] = "idle"

\* the tasks whose status is RUNNING
RunningTasks == {i \in TaskIds : svc.tasks[i].status = "running"}

\* C37: at most one register task is RUNNING at a time, and the count of
\* every created task is within 1..30.
C37_OneRunningTask ==
  /\ Cardinality(RunningTasks) <= 1
  /\ \A i \in TaskIds :
       svc.tasks[i].status # "absent" => svc.tasks[i].count \in 1..30

\* a step creates a register task
TaskCreated == \E i \in TaskIds : svc.tasks[i].status = "absent" /\ svc'.tasks[i].status # "absent"

\* C38: maintain_once starts a registration only when healthy < target and
\* no register task is RUNNING, never when it was skipped or pruning failed,
\* and PoolStatus.running is False whenever maintain_once is not in progress.
C38_MaintainStartsSafely ==
  /\ [](svc.m.at = "idle" => ~svc.running)
  /\ [][(svc.m.at # "idle" /\ TaskCreated) =>
          /\ svc.m.at = "register"
          /\ svc.m.healthy < svc.m.target
          /\ RunningTasks = {}
          /\ svc'.last_result = [kind |-> "done", register_started |-> TRUE]]_vars
  /\ [][(svc.m.at # "idle" /\ svc'.last_result.kind \in {"skipped", "prune_failed"})
          => ~TaskCreated]_vars

\* a name that _pick_next may return: not the current node, not a sentinel,
\* not in cooldown
Eligible(x) ==
  /\ x # call.current
  /\ x \notin Sentinels
  /\ x \notin call.bans

\* the list in cyclic order after the first occurrence of the current node,
\* or the list itself when there is no current node in it
CyclicAfterCurrent ==
  LET c == call.candidates
      ks == {k \in DOMAIN c : c[k] = call.current}
  IN IF ks = {} THEN c
     ELSE LET k == CHOOSE a \in ks : \A b \in ks : a <= b
          IN SubSeq(c, k + 1, Len(c)) \o SubSeq(c, 1, k)

\* C39: _pick_next never returns the current node, a sentinel or a node in
\* cooldown; it returns the first eligible candidate in cyclic order after
\* the current node, and None iff no candidate is eligible.
C39_PickNextCyclic ==
  call.fn = "pick_next" =>
    LET order == CyclicAfterCurrent
        ok == {k \in DOMAIN order : Eligible(order[k])}
    IN IF ok = {} THEN call.nxt = None
       ELSE /\ call.nxt # None
            /\ Eligible(call.nxt)
            /\ \E k \in ok : order[k] = call.nxt /\ \A j \in ok : k <= j

\* the current node is in the list, the nodes after it are not eligible, and
\* the search wrapped around to a node before it
C39_Witness ==
  /\ call.fn = "pick_next"
  /\ call.candidates = <<"A", "DIRECT", "S", "REJECT">>
  /\ call.current = "S"
  /\ call.bans = {}
  /\ call.nxt = "A"
====
